---- MODULE Spec2Model ----
(***************************************************************************)
(* Model of the container management service of src/main.go: the POST      *)
(* /create provisioning workflow (image, name and port resolution, create  *)
(* with one retry, start) and POST /images/pull, run against a model of    *)
(* the runtime daemon.                                                     *)
(*                                                                         *)
(* Strings are sequences of lexemes (a lexeme is a character or a word     *)
(* that the code never looks inside); strings.Split, strings.TrimPrefix,   *)
(* strings.Contains, strconv.Atoi and strconv.Itoa are operators on them.  *)
(***************************************************************************)
EXTENDS Integers, Sequences, FiniteSets, TLC

(***************************************************************************)
(* Bounds of the model.                                                    *)
(***************************************************************************)
\* clock readings: the clock advances at most MaxTicks times
MaxTicks == 2
\* unix time, in seconds, of the first clock reading
StartSec == 1700000000
\* length of the longest list of containers a bulk request names
MaxTargets == 2

(***************************************************************************)
(* Program constants.                                                      *)
(***************************************************************************)
\* src/main.go:188  the port isPortInUse takes for the server's own
ReservedPort == 8080
\* src/main.go:1151 the port r.Run listens on
ListenPort == 8081
\* src/main.go:216 and 227  upper end of both scans
ScanMax == 9999
\* src/main.go:227  lower end of the fallback scan
FallbackMin == 8081
\* src/main.go:95
DefaultImage == <<"nginx", ":", "latest">>

(***************************************************************************)
(* Strings.                                                                *)
(***************************************************************************)
Digit == <<"0", "1", "2", "3", "4", "5", "6", "7", "8", "9">>

IsDigit(ch) == \E d \in 1..10 : Digit[d] = ch

DigitVal(ch) == (CHOOSE d \in 1..10 : Digit[d] = ch) - 1

RECURSIVE DigitsVal(_)
DigitsVal(s) ==
    IF s = <<>> THEN 0
    ELSE 10 * DigitsVal(SubSeq(s, 1, Len(s) - 1)) + DigitVal(s[Len(s)])

\* strconv.Atoi: an optional sign, then one or more decimal digits
AtoiBody(s) == IF s # <<>> /\ s[1] \in {"+", "-"} THEN Tail(s) ELSE s

AtoiOk(s) ==
    /\ AtoiBody(s) # <<>>
    /\ \A k \in 1..Len(AtoiBody(s)) : IsDigit(AtoiBody(s)[k])

AtoiVal(s) ==
    IF s[1] = "-" THEN 0 - DigitsVal(AtoiBody(s)) ELSE DigitsVal(AtoiBody(s))

RECURSIVE NatDigits(_)
NatDigits(n) ==
    IF n < 10 THEN <<Digit[n + 1]>>
    ELSE NatDigits(n \div 10) \o <<Digit[(n % 10) + 1]>>

\* strconv.Itoa, strconv.FormatInt(_, 10)
Itoa(n) == IF n < 0 THEN <<"-">> \o NatDigits(0 - n) ELSE NatDigits(n)

\* strings.Split(s, ":")
RECURSIVE SplitColon(_)
SplitColon(s) ==
    IF \A k \in 1..Len(s) : s[k] # ":" THEN <<s>>
    ELSE LET k == CHOOSE j \in 1..Len(s) :
                      s[j] = ":" /\ \A h \in 1..(j - 1) : s[h] # ":"
         IN  <<SubSeq(s, 1, k - 1)>> \o SplitColon(SubSeq(s, k + 1, Len(s)))

\* strings.TrimPrefix(s, "/")
TrimSlash(s) == IF s # <<>> /\ s[1] = "/" THEN Tail(s) ELSE s

\* strings.Contains(s, sub)
Contains(s, sub) ==
    \E k \in 0..(Len(s) - Len(sub)) :
        \A j \in 1..Len(sub) : s[k + j] = sub[j]

(***************************************************************************)
(* The runtime daemon, as the handlers see it through the client calls.    *)
(* A container is [id, names, ports, running, bind]: names carry the       *)
(* daemon's leading "/", ports are the published host ports (PublicPort)   *)
(* that ContainerList reports, bind is the host port of the binding it was *)
(* created with (<<>> for none).  The list is kept newest first, as        *)
(* ContainerList returns it.                                               *)
(***************************************************************************)
VARIABLES containers, images, nextId, clock

\* names of a listed container with the leading "/" stripped
TrimmedNames(c) == {TrimSlash(c.names[k]) : k \in 1..Len(c.names)}

\* some container of the list publishes host port p (PublicPort # 0)
Publishes(list, p) ==
    p # 0 /\ \E k \in 1..Len(list) : p \in list[k].ports

\* time.Now().Unix() and time.Now().UnixNano() in decimal
UnixText(t) == Itoa(t.sec)

Pad9(d) == [k \in 1..(9 - Len(d)) |-> "0"] \o d

UnixNanoText(t) == Itoa(t.sec) \o Pad9(Itoa(t.nsec))

\* the identifier of the container numbered n: IdLen characters, then one
\* lexeme for the rest of it
IdLen == 12

IdRest == <<"9f86d081884c">>

FullId(n) ==
    [k \in 1..(IdLen - Len(NatDigits(n))) |-> "0"] \o NatDigits(n) \o IdRest

\* c.ID[:12]
Prefix12(id) == SubSeq(id, 1, IdLen)

(***************************************************************************)
(* Port allocator (POST /create).  isPortInUse lists the containers anew   *)
(* on every call and answers "free" when the listing fails.  The listings  *)
(* of one search are numbered 1, 2, ... in call order; okLists says which  *)
(* of them succeed: [all |-> TRUE] or [all |-> FALSE, n |-> k] (the first  *)
(* k succeed, the later ones fail).                                        *)
(***************************************************************************)
ListOk(okLists, k) == okLists.all \/ k <= okLists.n

\* isPortInUse without the check of the server port
isPortInUseNoServer(port, list, okLists, k) ==
    ListOk(okLists, k) /\ Publishes(list, port)

\* isPortInUse taking every port from the server port up for the server's
isPortInUseFromServer(port, list, okLists, k) ==
    \/ port >= ReservedPort
    \/ ListOk(okLists, k) /\ Publishes(list, port)

\* src/main.go:186-206; k is the number of the listing this call issues
isPortInUse(port, list, okLists, k) ==
    \/ port = ReservedPort
    \/ ListOk(okLists, k) /\ Publishes(list, port)

\* listings issued by the probe of the requested port h
ListsOfFirstProbe(h) == IF h = ReservedPort THEN 0 ELSE 1

\* number of the listing issued by the probe of i in the scan h+1..ScanMax
AscListing(h, i) ==
    ListsOfFirstProbe(h) + (i - h)
        - (IF h < ReservedPort /\ ReservedPort <= i THEN 1 ELSE 0)

\* listings issued by the probe of h and the whole scan h+1..ScanMax
ListsBeforeFallback(h) ==
    IF h >= ScanMax THEN ListsOfFirstProbe(h) ELSE AscListing(h, ScanMax)

\* number of the listing issued by the probe of i in the fallback scan
FallbackListing(h, i) ==
    ListsBeforeFallback(h) + (i - FallbackMin + 1)
        - (IF FallbackMin <= ReservedPort /\ ReservedPort <= i THEN 1 ELSE 0)

AscFree(h, list, okLists, i) == ~isPortInUse(i, list, okLists, AscListing(h, i))

FallbackFree(h, list, okLists, i) ==
    ~isPortInUse(i, list, okLists, FallbackListing(h, i))

NoPort == [found |-> FALSE, port |-> 0]

\* src/main.go:216-223: first free port of h+1..ScanMax
AscendingScan(h, list, okLists) ==
    IF \E i \in (h + 1)..ScanMax : AscFree(h, list, okLists, i)
    THEN [found |-> TRUE,
          port |-> CHOOSE i \in (h + 1)..ScanMax :
                       /\ AscFree(h, list, okLists, i)
                       /\ \A j \in (h + 1)..(i - 1) : ~AscFree(h, list, okLists, j)]
    ELSE NoPort

\* src/main.go:226-235: first free port of FallbackMin..ScanMax
FallbackScan(h, list, okLists) ==
    IF \E i \in FallbackMin..ScanMax : FallbackFree(h, list, okLists, i)
    THEN [found |-> TRUE,
          port |-> CHOOSE i \in FallbackMin..ScanMax :
                       /\ FallbackFree(h, list, okLists, i)
                       /\ \A j \in FallbackMin..(i - 1) :
                              ~FallbackFree(h, list, okLists, j)]
    ELSE NoPort

\* src/main.go:208-256: the port search for the requested host port h, whose
\* text is hostText.  found: a port was settled; port: finalHostPort;
\* searched: the probe of h answered "in use"; scan: the scan that settled
\* the port; listed: the listing of the settled port's probe succeeded
ResolvePort(hostText, h, list, okLists) ==
    IF ~isPortInUse(h, list, okLists, 1)
    THEN [found |-> TRUE, port |-> hostText, searched |-> FALSE,
          scan |-> "none", listed |-> ListOk(okLists, 1)]
    ELSE LET a == AscendingScan(h, list, okLists)
             f == FallbackScan(h, list, okLists)
         IN  IF a.found
             THEN [found |-> TRUE, port |-> Itoa(a.port), searched |-> TRUE,
                   scan |-> "ascending",
                   listed |-> ListOk(okLists, AscListing(h, a.port))]
             ELSE IF f.found
             THEN [found |-> TRUE, port |-> Itoa(f.port), searched |-> TRUE,
                   scan |-> "fallback",
                   listed |-> ListOk(okLists, FallbackListing(h, f.port))]
             ELSE [found |-> FALSE, port |-> hostText, searched |-> TRUE,
                   scan |-> "fallback", listed |-> TRUE]

(***************************************************************************)
(* Name resolver (POST /create).                                           *)
(***************************************************************************)
\* NameStep appending the suffix whether or not a name matches
NameStepAlways(cn, c, suffix) == cn \o <<"-">> \o suffix

\* src/main.go:150-157: one container of the loop; on the first of its
\* names that equals containerName the suffix is appended and the inner
\* loop left
NameStep(cn, c, suffix) ==
    IF \E k \in 1..Len(c.names) : TrimSlash(c.names[k]) = cn
    THEN cn \o <<"-">> \o suffix
    ELSE cn

\* src/main.go:149-158: the loop over the listed containers, which goes on
\* with the suffixed name after a collision
RECURSIVE NameLoop(_, _, _)
NameLoop(cn, list, suffix) ==
    IF list = <<>> THEN cn
    ELSE NameLoop(NameStep(cn, list[1], suffix), Tail(list), suffix)

(***************************************************************************)
(* Failure messages of the daemon, and their classification.               *)
(***************************************************************************)
MsgNameConflict(name) ==
    <<"Conflict.", "The", "container", "name", "\"", "/">> \o name
        \o <<"\"", "is", "already", "in", "use", "by", "container", "\"",
             "4f1e", "\"", ".">>

MsgBindHostPort(portText) ==
    <<"failed", "to", "bind", "host", "port", "for", "0.0.0.0", ":">>
        \o portText
        \o <<":", "172.17.0.2", ":", "80/tcp", ":", "address", "already",
             "in", "use">>

MsgListenInUse(portText) ==
    <<"listen", "tcp4", "0.0.0.0", ":">> \o portText
        \o <<":", "bind", ":", "address", "already", "in", "use">>

MsgAllocated(portText) ==
    <<"Bind", "for", "0.0.0.0", ":">> \o portText
        \o <<"failed", ":", "port", "is", "already", "allocated">>

\* the daemon may not bind the port at all (a privileged port)
MsgBindDenied(portText) ==
    <<"failed", "to", "bind", "host", "port", "for", "0.0.0.0", ":">>
        \o portText
        \o <<":", "172.17.0.2", ":", "80/tcp", ":", "permission", "denied">>

MsgInvalidPort == <<"invalid", "port", "specification">>

MsgNoImage == <<"No", "such", "image">>

MsgDown == <<"Cannot", "connect", "to", "the", "Docker", "daemon">>

MsgNoSuchContainer(ref) == <<"No", "such", "container", ":">> \o ref

\* fmt.Errorf("unknown action: %s", action)
MsgUnknownAction(action) == <<"unknown", "action", ":", action>>

AlreadyInUse == <<"already", "in", "use">>
ContainerNameMark == <<"container", "name">>
BindHostPort == <<"bind", "host", "port">>
AddressInUse == <<"address", "already", "in", "use">>

\* IsNameConflict without the check for "container name"
IsNameConflictAnyUse(msg) == Contains(msg, AlreadyInUse)

\* src/main.go:283-284: the failure of ContainerCreate that is retried
IsNameConflict(msg) ==
    Contains(msg, AlreadyInUse) /\ Contains(msg, ContainerNameMark)

\* src/main.go:283-288: the failure of ContainerCreate answered 409
IsCreatePortConflict(msg) ==
    /\ Contains(msg, AlreadyInUse)
    /\ ~Contains(msg, ContainerNameMark)
    /\ Contains(msg, BindHostPort)

\* w is a lexeme of the daemon's messages whose first character is a digit
DigitLed(w) == IsDigit(w) \/ w \in {"0.0.0.0", "172.17.0.2", "80/tcp"}

Unknown == <<"unknown">>

\* strings.Fields(part)[0] of a part that begins with a digit: its leading
\* digits, or its first word
FirstField(part) ==
    IF IsDigit(part[1])
    THEN LET n == CHOOSE k \in 1..Len(part) :
                      /\ \A j \in 1..k : IsDigit(part[j])
                      /\ k = Len(part) \/ ~IsDigit(part[k + 1])
         IN  SubSeq(part, 1, n)
    ELSE <<part[1]>>

\* src/main.go:290-299: portFromError, the first field of the first part
\* between colons that begins with a digit, "unknown" without one
CreatePortFromError(msg) ==
    LET parts == SplitColon(msg)
        led == {k \in 1..Len(parts) :
                   Len(parts[k]) > 0 /\ DigitLed(parts[k][1])}
    IN  IF Contains(msg, <<":">>) /\ led # {}
        THEN FirstField(parts[CHOOSE k \in led : \A j \in led : k <= j])
        ELSE Unknown

\* StartConflictType without the "address already in use" branch
StartConflictTypeBindOnly(msg) ==
    IF Contains(msg, BindHostPort) THEN "port_binding_failed" ELSE ""

\* src/main.go:333-345: conflictType of a ContainerStart failure
StartConflictType(msg) ==
    IF Contains(msg, BindHostPort) THEN "port_binding_failed"
    ELSE IF Contains(msg, AddressInUse) THEN "address_in_use"
    ELSE ""

\* src/main.go:336-342 and 550-557: the text between the first "0.0.0.0:"
\* and the next ":", empty when there is none or when it would be empty
PortAfterAddress(msg) ==
    IF Contains(msg, <<"0.0.0.0", ":">>)
    THEN LET k == CHOOSE j \in 1..(Len(msg) - 1) :
                      /\ msg[j] = "0.0.0.0" /\ msg[j + 1] = ":"
                      /\ \A h \in 1..(j - 1) :
                             ~(msg[h] = "0.0.0.0" /\ msg[h + 1] = ":")
             rest == SubSeq(msg, k + 2, Len(msg))
         IN  IF \E e \in 2..Len(rest) :
                    rest[e] = ":" /\ \A h \in 1..(e - 1) : rest[h] # ":"
             THEN SubSeq(rest, 1,
                         (CHOOSE e \in 2..Len(rest) :
                              rest[e] = ":" /\ \A h \in 1..(e - 1) : rest[h] # ":")
                         - 1)
             ELSE <<>>
    ELSE <<>>

\* src/main.go:333-343: conflictPort of a ContainerStart failure of POST
\* /create, extracted only under "bind host port"
StartConflictPort(msg) ==
    IF Contains(msg, BindHostPort) THEN PortAfterAddress(msg) ELSE <<>>

(***************************************************************************)
(* The daemon's answers to create and start.                               *)
(***************************************************************************)
Success == [ok |-> TRUE, msg |-> <<>>]
Failure(m) == [ok |-> FALSE, msg |-> m]

DaemonNames == UNION {TrimmedNames(containers[k]) : k \in 1..Len(containers)}

\* a host port the daemon accepts in a binding: decimal digits, 0..65535
\* (0 asks for an ephemeral port)
ValidHostPort(text) ==
    /\ text # <<>>
    /\ \A k \in 1..Len(text) : IsDigit(text[k])
    /\ Len(text) <= 6
    /\ DigitsVal(text) <= 65535

\* answers of ContainerCreate(name, binding): the daemon refuses a name it
\* holds and a binding it cannot parse; any create may fail otherwise
CreateOutcomes(name, bind) ==
    IF name \in DaemonNames THEN {Failure(MsgNameConflict(name))}
    ELSE IF bind # <<>> /\ ~ValidHostPort(bind) THEN {Failure(MsgInvalidPort)}
    ELSE {Success, Failure(MsgNoImage), Failure(MsgNameConflict(name)),
          Failure(MsgBindHostPort(bind)), Failure(MsgListenInUse(bind))}
         \cup (IF bind = <<>> THEN {} ELSE {Failure(MsgBindDenied(bind))})

NewContainer(id, name, bind) ==
    [id |-> id, names |-> <<<<"/">> \o name>>, ports |-> {},
     running |-> FALSE, bind |-> bind]

EphemeralPorts == {32768, 32769}

\* the host ports a start of c may publish
StartPorts(c) ==
    IF c.bind = <<>> THEN {{}}
    ELSE IF DigitsVal(c.bind) = 0
    THEN {{e} : e \in {p \in EphemeralPorts : ~Publishes(containers, p)}}
    ELSE {{DigitsVal(c.bind)}}

\* answers of ContainerStart(c): a binding held by another container is
\* refused; any start may fail otherwise (a process outside the daemon may
\* hold the port)
StartOutcomes(c) ==
    IF c.bind # <<>> /\ Publishes(containers, DigitsVal(c.bind))
    THEN {Failure(MsgAllocated(c.bind)), Failure(MsgBindHostPort(c.bind))}
    ELSE {Success, Failure(MsgNoImage)}
         \cup (IF c.bind = <<>> THEN {}
               ELSE {Failure(MsgBindHostPort(c.bind)),
                     Failure(MsgListenInUse(c.bind)),
                     Failure(MsgBindDenied(c.bind))})

ContainerOf(id) ==
    containers[CHOOSE k \in 1..Len(containers) : containers[k].id = id]

Started(id, ports) ==
    [k \in 1..Len(containers) |->
        IF containers[k].id = id
        THEN [containers[k] EXCEPT !.running = TRUE, !.ports = ports]
        ELSE containers[k]]

\* the container the daemon takes a reference for: a full id, a name, or
\* a prefix of one id only; 0 when it takes it for none
DaemonFind(ref) ==
    LET n == Len(containers)
        byId == {k \in 1..n : FullId(containers[k].id) = ref}
        byName == {k \in 1..n :
                      \E i \in 1..Len(containers[k].names) :
                          containers[k].names[i] \in {ref, <<"/">> \o ref}}
        byPrefix == {k \in 1..n :
                        /\ ref # <<>> /\ Len(ref) <= IdLen
                        /\ SubSeq(FullId(containers[k].id), 1, Len(ref)) = ref}
    IN  IF byId # {} THEN CHOOSE k \in byId : TRUE
        ELSE IF byName # {} THEN CHOOSE k \in byName : TRUE
        ELSE IF Cardinality(byPrefix) = 1 THEN CHOOSE k \in byPrefix : TRUE
        ELSE 0

\* answers of ContainerStart, ContainerStop, ContainerRemove,
\* ContainerRestart and ContainerInspect on a reference: an unknown
\* reference is refused, the start of a running container does nothing,
\* any other call may fail
RefOutcomes(op, ref) ==
    IF DaemonFind(ref) = 0 THEN {Failure(MsgNoSuchContainer(ref))}
    ELSE IF op = "start"
    THEN (IF containers[DaemonFind(ref)].running THEN {Success}
          ELSE StartOutcomes(containers[DaemonFind(ref)]))
    ELSE {Success, Failure(MsgDown)}

\* the container lists a successful call on a reference may leave
RefAfter(op, ref) ==
    LET k == DaemonFind(ref)
        c == containers[k]
    IN  CASE op = "start" ->
                 IF c.running THEN {containers}
                 ELSE {Started(c.id, ports) : ports \in StartPorts(c)}
          [] op = "stop" ->
                 {[containers EXCEPT ![k].running = FALSE, ![k].ports = {}]}
          [] op = "remove" ->
                 {SubSeq(containers, 1, k - 1)
                      \o SubSeq(containers, k + 1, Len(containers))}
          [] op = "restart" ->
                 IF c.running
                 THEN {containers}
                 ELSE {Started(c.id, ports) : ports \in StartPorts(c)}
          [] OTHER -> {containers}

\* clock readings a call of time.Now() may return
Later(t) ==
    {t}
    \cup (IF t.nsec < MaxTicks
          THEN {[sec |-> t.sec, nsec |-> t.nsec + 1]} ELSE {})
    \cup (IF t.sec < StartSec + MaxTicks
          THEN {[sec |-> t.sec + 1, nsec |-> 0]} ELSE {})

(***************************************************************************)
(* Requests.  Each slot serves one request on its own goroutine.  pc is    *)
(* the handler's position, at the daemon call it issues next; calls is the *)
(* log of the daemon calls it has issued; response is what it sent.        *)
(***************************************************************************)
VARIABLES req, pc, imageName, containerName, hostConfig, actualPortMapping,
          respID, calls, response, nameSeen, portSeen

\* /stop, /start, /remove: targetContainer, and targetSeen, what the lookup
\* met; /bulk: results, successCount, errorCount and cursor, the position
\* of the loop in req.Containers
VARIABLES targetContainer, targetSeen, results, successCount, errorCount,
          cursor

\* DELETE /images/:id: targetImage, and removedSeen, the images the daemon
\* removed on the calls of the request
VARIABLES targetImage, removedSeen

\* the daemon client of each request: acquired by NewClientWithOpts, open
\* until the deferred cli.Close() runs, closes the number of times it ran
VARIABLES cli

vars == <<containers, images, nextId, clock, req, pc, imageName,
          containerName, hostConfig, actualPortMapping, respID, calls,
          response, nameSeen, portSeen, targetContainer, targetSeen, results,
          successCount, errorCount, cursor, targetImage, removedSeen, cli>>

imageVars == <<targetImage, removedSeen>>

handlerVars == <<targetContainer, targetSeen, results, successCount,
                 errorCount, cursor, imageVars>>

daemonVars == <<containers, images, nextId>>
localVars == <<imageName, containerName, hostConfig, actualPortMapping, respID>>
seenVars == <<nameSeen, portSeen>>

Slots == {1, 2}

NoRequest == [kind |-> "", name |-> <<>>, image |-> <<>>, port |-> <<>>,
              tag |-> <<>>, id |-> <<>>, action |-> "", containers |-> <<>>]
NoBinding == [bound |-> FALSE, HostPort |-> <<>>, port |-> <<>>]
NoResponse == [status |-> 0, error |-> "", id |-> 0, name |-> <<>>,
               image |-> <<>>, port |-> <<>>, note |-> FALSE,
               original_port |-> <<>>, conflict_type |-> "",
               port_in_conflict |-> <<>>, port_in_use |-> <<>>,
               available_images |-> <<>>, target |-> <<>>, action |-> "",
               results |-> {}, total |-> 0, success |-> 0, errors |-> 0,
               sent |-> 0]
\* what the lookup of /stop, /start, /remove met: matches: the ids of the
\* containers the daemon held that have the requested text as id, as the
\* first IdLen characters of the id, or as a name
NoTargetSeen == [read |-> FALSE, matches |-> {}]
\* what the name resolution of a request met: listed: the listing
\* succeeded; names: the names the daemon held; at: the second it ran in;
\* resolved: the name it settled
NoNameSeen == [read |-> FALSE, listed |-> FALSE, names |-> {}, at |-> 0,
               resolved |-> <<>>]
\* what the port search of a request met: h the requested host port; taken:
\* h was reserved or published when the search ran; freeExists, ascFree:
\* some port of the two scanned ranges, of h+1..ScanMax, was neither;
\* settled: the port it settled; settledTaken: that port was reserved or
\* published; allListed: no listing of the search failed; the rest as
\* ResolvePort returns it
NoPortSeen == [read |-> FALSE, h |-> 0, taken |-> FALSE, freeExists |-> FALSE,
               ascFree |-> FALSE, settled |-> 0, settledTaken |-> FALSE,
               allListed |-> FALSE, searched |-> FALSE, scan |-> "none",
               listed |-> FALSE, found |-> FALSE]

\* port p is the reserved port or a published host port of the list
Taken(p, list) == p = ReservedPort \/ Publishes(list, p)

Call(op, name, port, out) ==
    [op |-> op, name |-> name, port |-> port, ok |-> out.ok, msg |-> out.msg]

Log(r, c) == calls' = [calls EXCEPT ![r] = Append(@, c)]

\* ctx.JSON(status, ...): the handler's response, after which it returns
NoClient == [acquired |-> FALSE, open |-> FALSE, closes |-> 0]

\* client.NewClientWithOpts answered: the request holds a client
Acquire(r) ==
    cli' = [cli EXCEPT ![r] = [acquired |-> TRUE, open |-> TRUE, closes |-> 0]]

\* Reply without the deferred cli.Close()
ReplyKeepOpen(r, rec) ==
    /\ response' = [response EXCEPT ![r] = [rec EXCEPT !.sent = 1]]
    /\ pc' = [pc EXCEPT ![r] = "done"]
    /\ UNCHANGED cli

\* Reply without the return: the handler stays where it is
ReplyNoReturn(r, rec) ==
    /\ response' = [response EXCEPT ![r] =
                       [rec EXCEPT !.sent = response[r].sent + 1]]
    /\ UNCHANGED <<pc, cli>>

\* ctx.JSON and return: the response, sent counting the responses written,
\* then the deferred cli.Close() of a handler that holds a client
Reply(r, rec) ==
    /\ response' = [response EXCEPT ![r] =
                       [rec EXCEPT !.sent = response[r].sent + 1]]
    /\ pc' = [pc EXCEPT ![r] = "done"]
    /\ cli' = [cli EXCEPT ![r] =
                  IF @.acquired
                  THEN [@ EXCEPT !.open = FALSE, !.closes = @ + 1]
                  ELSE @]

Error(status, kind) == [NoResponse EXCEPT !.status = status, !.error = kind]

None == <<"none">>

\* src/main.go:45 and 310: gin.Default() recovers the panic of
\* strings.Split(actualPortMapping, ":")[1] on a mapping without ":" and
\* answers 500; no response was written before it
Recovered == Error(500, "panic_recovered")

(***************************************************************************)
(* Inputs and initial daemon states.                                       *)
(***************************************************************************)
PortSpec(h, c) == Itoa(h) \o <<":">> \o Itoa(c)

NameInputs == {<<>>, <<"web">>}

ImageInputs == {<<>>, <<"redis", ":", "7">>}

PortInputs ==
    {<<>>,
     PortSpec(8080, 80), PortSpec(8081, 80), PortSpec(9000, 80),
     PortSpec(9999, 80), PortSpec(10000, 80), PortSpec(0, 80),
     PortSpec(70000, 80), PortSpec(0 - 1, 80),
     <<"+">> \o PortSpec(9000, 80),
     <<"a", "b", "c", ":", "8", "0">>, <<":", "8", "0">>,
     Itoa(8080), <<"1", ":", "2", ":", "3">>}

PullNameInputs == {<<>>, <<"redis">>}

TagInputs == {<<>>, <<"7">>}

\* the :id of /stop, /start, /remove
IdInputs == {FullId(1), Prefix12(FullId(1)), SubSeq(FullId(1), 1, IdLen - 1),
             <<"web">>, <<"ghost">>}

\* the :action of /bulk
KnownActions == {"start", "stop", "remove", "restart"}

BulkActions == KnownActions \cup {"pause"}

Targets == {Prefix12(FullId(1)), <<"web">>, <<"ghost">>}

TargetLists == UNION {[1..n -> Targets] : n \in 0..MaxTargets}

\* a container that is not running, made with a binding of host port bind
Unstarted(id, name, bind) ==
    [id |-> id, names |-> <<<<"/">> \o name>>, ports |-> {},
     running |-> FALSE, bind |-> bind]

Listed(id, name, ports) ==
    [id |-> id, names |-> <<<<"/">> \o name>>, ports |-> ports,
     running |-> ports # {}, bind |-> <<>>]

WebAt(t) == <<"web", "-">> \o Itoa(t)

\* the name invented for a request that names no container
InventedName(secText) == <<"my", "-", "container", "-">> \o secText

\* container lists the daemon may hold when a request arrives
InitialContainers ==
    {<<>>,
     <<Listed(2, WebAt(StartSec), {}), Listed(1, <<"web">>, {9000, 9999, 10000})>>,
     <<Unstarted(2, <<"web">>, Itoa(9000)), Listed(1, WebAt(StartSec), {8081})>>,
     <<Listed(2, InventedName(Itoa(StartSec)), {}),
       Listed(1, <<"proxy">>, FallbackMin..ScanMax)>>}

\* which listings of a port search succeed
OkLists == {[all |-> TRUE, n |-> 0], [all |-> FALSE, n |-> 0],
            [all |-> FALSE, n |-> 1]}

\* no request has arrived
Idle ==
    /\ req = [r \in Slots |-> NoRequest]
    /\ pc = [r \in Slots |-> "idle"]
    /\ imageName = [r \in Slots |-> <<>>]
    /\ containerName = [r \in Slots |-> <<>>]
    /\ hostConfig = [r \in Slots |-> NoBinding]
    /\ actualPortMapping = [r \in Slots |-> None]
    /\ respID = [r \in Slots |-> 0]
    /\ calls = [r \in Slots |-> <<>>]
    /\ response = [r \in Slots |-> NoResponse]
    /\ nameSeen = [r \in Slots |-> NoNameSeen]
    /\ portSeen = [r \in Slots |-> NoPortSeen]
    /\ targetContainer = [r \in Slots |-> <<>>]
    /\ targetSeen = [r \in Slots |-> NoTargetSeen]
    /\ results = [r \in Slots |-> {}]
    /\ successCount = [r \in Slots |-> 0]
    /\ errorCount = [r \in Slots |-> 0]
    /\ cursor = [r \in Slots |-> 1]
    /\ targetImage = [r \in Slots |-> <<>>]
    /\ removedSeen = [r \in Slots |-> {}]
    /\ cli = [r \in Slots |-> NoClient]

Init ==
    /\ containers \in InitialContainers
    /\ images = {DefaultImage}
    /\ nextId = 3
    /\ clock = [sec |-> StartSec, nsec |-> 0]
    /\ Idle

(***************************************************************************)
(* POST /create (src/main.go:66-393).                                      *)
(***************************************************************************)
\* src/main.go:66-71  ShouldBindJSON
ArriveCreate(r) ==
    /\ pc[r] = "idle"
    /\ \E valid \in BOOLEAN, n \in NameInputs, i \in ImageInputs, p \in PortInputs :
        IF valid
        THEN /\ req' = [req EXCEPT ![r] =
                        [NoRequest EXCEPT !.kind = "create", !.name = n,
                                          !.image = i, !.port = p]]
             /\ pc' = [pc EXCEPT ![r] = "connect"]
             /\ UNCHANGED <<response, cli>>
        ELSE /\ n = <<>> /\ i = <<>> /\ p = <<>>
             /\ req' = [req EXCEPT ![r] = [NoRequest EXCEPT !.kind = "create"]]
             /\ Reply(r, Error(400, "invalid_json"))
    /\ UNCHANGED <<handlerVars, daemonVars, clock, localVars, calls, seenVars>>

\* src/main.go:76-83  client.NewClientWithOpts
CreateConnect(r) ==
    /\ pc[r] = "connect"
    /\ \E ok \in BOOLEAN :
        IF ok THEN pc' = [pc EXCEPT ![r] = "ping"] /\ Acquire(r)
                   /\ UNCHANGED response
        ELSE Reply(r, Error(500, "cannot_connect"))
    /\ UNCHANGED <<handlerVars, daemonVars, clock, req, localVars, calls, seenVars>>

\* src/main.go:86-96  cli.Ping, then the image reference
CreatePing(r) ==
    /\ pc[r] = "ping"
    /\ \E ok \in BOOLEAN :
        /\ Log(r, Call("ping", <<>>, <<>>, IF ok THEN Success ELSE Failure(MsgDown)))
        /\ IF ok
           THEN /\ imageName' = [imageName EXCEPT ![r] =
                       IF req[r].image = <<>> THEN DefaultImage ELSE req[r].image]
                /\ pc' = [pc EXCEPT ![r] = "imageList"]
                /\ UNCHANGED <<response, cli>>
           ELSE /\ Reply(r, Error(500, "not_accessible"))
                /\ UNCHANGED imageName
    /\ UNCHANGED <<handlerVars, daemonVars, clock, req, containerName, hostConfig,
                   actualPortMapping, respID, seenVars>>

\* src/main.go:101-120  cli.ImageList; a failed listing is printed and the
\* image resolution skipped
CreateImageList(r) ==
    /\ pc[r] = "imageList"
    /\ \E ok \in BOOLEAN :
        /\ Log(r, Call("imageList", imageName[r], <<>>,
                       IF ok THEN Success ELSE Failure(MsgDown)))
        /\ pc' = [pc EXCEPT ![r] =
               IF ok /\ imageName[r] \notin images THEN "imagePull" ELSE "name"]
    /\ UNCHANGED <<handlerVars, daemonVars, clock, req, localVars, response, cli, seenVars>>

\* src/main.go:122-128  cli.ImagePull
CreateImagePull(r) ==
    /\ pc[r] = "imagePull"
    /\ \E ok \in BOOLEAN :
        /\ Log(r, Call("imagePull", imageName[r], <<>>,
                       IF ok THEN Success ELSE Failure(MsgDown)))
        /\ IF ok THEN pc' = [pc EXCEPT ![r] = "pullRead"] /\ UNCHANGED <<response, cli>>
           ELSE Reply(r, Error(500, "pull_failed"))
    /\ UNCHANGED <<handlerVars, daemonVars, clock, req, localVars, seenVars>>

\* src/main.go:131-137  io.Copy(io.Discard, reader): the pull completes
\* when its output has been read to the end
CreatePullRead(r) ==
    /\ pc[r] = "pullRead"
    /\ \E ok \in BOOLEAN :
        IF ok
        THEN /\ images' = images \cup {imageName[r]}
             /\ pc' = [pc EXCEPT ![r] = "name"]
             /\ UNCHANGED <<response, cli>>
        ELSE /\ Reply(r, Error(500, "pull_read_failed"))
             /\ UNCHANGED images
    /\ UNCHANGED <<handlerVars, containers, nextId, clock, req, localVars, calls, seenVars>>

\* src/main.go:142-160  the container name: invented when absent, else
\* checked against cli.ContainerList (a failed listing is ignored)
CreateResolveName(r) ==
    /\ pc[r] = "name"
    /\ IF req[r].name = <<>>
       THEN \E t \in Later(clock) :
              /\ clock' = t
              /\ containerName' = [containerName EXCEPT ![r] =
                     InventedName(UnixText(t))]
              /\ nameSeen' = [nameSeen EXCEPT ![r] =
                     [read |-> TRUE, listed |-> FALSE, names |-> DaemonNames,
                      at |-> t.sec, resolved |-> InventedName(UnixText(t))]]
              /\ UNCHANGED calls
       ELSE \E ok \in BOOLEAN :
            \E t \in (IF ok /\ req[r].name \in DaemonNames
                      THEN Later(clock) ELSE {clock}) :
              /\ clock' = t
              /\ Log(r, Call("containerList", <<>>, <<>>,
                             IF ok THEN Success ELSE Failure(MsgDown)))
              /\ containerName' = [containerName EXCEPT ![r] =
                     IF ok THEN NameLoop(req[r].name, containers, UnixText(t))
                     ELSE req[r].name]
              /\ nameSeen' = [nameSeen EXCEPT ![r] =
                     [read |-> TRUE, listed |-> ok, names |-> DaemonNames,
                      at |-> t.sec,
                      resolved |->
                          IF ok
                          THEN NameLoop(req[r].name, containers, UnixText(t))
                          ELSE req[r].name]]
    /\ pc' = [pc EXCEPT ![r] = "port"]
    /\ UNCHANGED <<handlerVars, daemonVars, req, imageName, hostConfig, actualPortMapping,
                   respID, response, cli, portSeen>>

\* src/main.go:170-274  the port mapping: parse req.Port, search a free
\* host port, configure the binding
CreateConfigurePort(r) ==
    /\ pc[r] = "port"
    /\ \E portParts \in {SplitColon(req[r].port)} :
           IF req[r].port = <<>> \/ Len(portParts) # 2
           THEN /\ pc' = [pc EXCEPT ![r] = "create"]
                /\ UNCHANGED <<hostConfig, actualPortMapping, calls, response, cli,
                               portSeen>>
           ELSE IF ~AtoiOk(portParts[1])
           THEN /\ Reply(r, Error(400, "invalid_host_port"))
                /\ UNCHANGED <<hostConfig, actualPortMapping, calls, portSeen>>
           ELSE \E okLists \in OkLists :
                \E hostPortInt \in {AtoiVal(portParts[1])} :
                \E plan \in {ResolvePort(portParts[1], hostPortInt, containers,
                                         okLists)} :
                    /\ Log(r, Call("containerList", <<>>, <<>>,
                                   IF plan.listed THEN Success
                                   ELSE Failure(MsgDown)))
                    /\ portSeen' = [portSeen EXCEPT ![r] =
                           [read |-> TRUE, h |-> hostPortInt,
                            taken |-> Taken(hostPortInt, containers),
                            freeExists |->
                                \E i \in ((hostPortInt + 1)..ScanMax)
                                           \cup (FallbackMin..ScanMax) :
                                    ~Taken(i, containers),
                            ascFree |->
                                \E i \in (hostPortInt + 1)..ScanMax :
                                    ~Taken(i, containers),
                            settled |-> AtoiVal(plan.port),
                            settledTaken |->
                                plan.found /\ Taken(AtoiVal(plan.port), containers),
                            allListed |-> okLists.all,
                            searched |-> plan.searched, scan |-> plan.scan,
                            listed |-> plan.listed, found |-> plan.found]]
                    /\ IF plan.found
                       THEN /\ hostConfig' = [hostConfig EXCEPT ![r] =
                                   [bound |-> TRUE, HostPort |-> plan.port,
                                    port |-> portParts[2]]]
                            /\ actualPortMapping' =
                                   [actualPortMapping EXCEPT ![r] =
                                       plan.port \o <<":">> \o portParts[2]]
                            /\ pc' = [pc EXCEPT ![r] = "create"]
                            /\ UNCHANGED <<response, cli>>
                       ELSE /\ Reply(r, [Error(409, "port_unavailable") EXCEPT
                                   !.conflict_type = "port_unavailable",
                                   !.original_port = portParts[1]])
                            /\ UNCHANGED <<hostConfig, actualPortMapping>>
    /\ UNCHANGED <<handlerVars, daemonVars, clock, req, imageName, containerName, respID,
                   nameSeen>>

\* the daemon's side of a successful ContainerCreate
Created(r) ==
    /\ containers' = <<NewContainer(nextId, containerName[r],
                                    hostConfig[r].HostPort)>> \o containers
    /\ respID' = [respID EXCEPT ![r] = nextId]
    /\ nextId' = nextId + 1
    /\ pc' = [pc EXCEPT ![r] = "start"]

\* src/main.go:278-321  cli.ContainerCreate and the handling of its failure
CreateContainer(r) ==
    /\ pc[r] = "create"
    /\ \E out \in CreateOutcomes(containerName[r], hostConfig[r].HostPort) :
        /\ Log(r, Call("create", containerName[r], hostConfig[r].HostPort, out))
        /\ IF out.ok
           THEN /\ Created(r)
                /\ UNCHANGED <<clock, containerName, response, cli>>
           ELSE IF IsNameConflict(out.msg)
           THEN \E t \in Later(clock) :
                  /\ clock' = t
                  /\ containerName' = [containerName EXCEPT ![r] =
                         @ \o <<"-">> \o UnixNanoText(t)]
                  /\ pc' = [pc EXCEPT ![r] = "retry"]
                  /\ UNCHANGED <<containers, respID, nextId, response, cli>>
           ELSE /\ IF /\ IsCreatePortConflict(out.msg)
                      /\ Len(SplitColon(actualPortMapping[r])) < 2
                   THEN Reply(r, Recovered)
                   ELSE IF IsCreatePortConflict(out.msg)
                   THEN Reply(r, [Error(409, "system_port_conflict") EXCEPT
                                  !.conflict_type = "system_port_conflict",
                                  !.port_in_use =
                                      CreatePortFromError(out.msg)])
                   ELSE Reply(r, Error(500, "create_failed"))
                /\ UNCHANGED <<clock, containerName, containers, respID, nextId>>
    /\ UNCHANGED <<handlerVars, images, req, imageName, hostConfig, actualPortMapping,
                   seenVars>>

\* CreateRetry going on to ContainerStart whatever the second create answered
CreateRetryUnchecked(r) ==
    /\ pc[r] = "retry"
    /\ \E out \in CreateOutcomes(containerName[r], hostConfig[r].HostPort) :
        /\ Log(r, Call("create", containerName[r], hostConfig[r].HostPort, out))
        /\ IF out.ok
           THEN Created(r)
           ELSE /\ pc' = [pc EXCEPT ![r] = "start"]
                /\ UNCHANGED <<containers, respID, nextId>>
    /\ UNCHANGED <<handlerVars, images, clock, req, imageName, containerName, hostConfig,
                   actualPortMapping, response, cli, seenVars>>

\* src/main.go:287 and 317-320  the second cli.ContainerCreate
CreateRetry(r) ==
    /\ pc[r] = "retry"
    /\ \E out \in CreateOutcomes(containerName[r], hostConfig[r].HostPort) :
        /\ Log(r, Call("create", containerName[r], hostConfig[r].HostPort, out))
        /\ IF out.ok
           THEN Created(r) /\ UNCHANGED <<response, cli>>
           ELSE /\ Reply(r, Error(500, "create_failed"))
                /\ UNCHANGED <<containers, respID, nextId>>
    /\ UNCHANGED <<handlerVars, images, clock, req, imageName, containerName, hostConfig,
                   actualPortMapping, seenVars>>

\* SuccessResponse noting a change for every request that named a port
SuccessResponseAlwaysNoted(r) ==
    [NoResponse EXCEPT
        !.status = 200, !.id = respID[r], !.name = containerName[r],
        !.image = imageName[r], !.port = actualPortMapping[r],
        !.note = (req[r].port # <<>>),
        !.original_port = req[r].port]

\* SuccessResponse reporting the name the request asked for
SuccessResponseRequested(r) ==
    [NoResponse EXCEPT
        !.status = 200, !.id = respID[r], !.name = req[r].name,
        !.image = imageName[r], !.port = actualPortMapping[r],
        !.note = (actualPortMapping[r] # req[r].port /\ req[r].port # <<>>),
        !.original_port =
            IF actualPortMapping[r] # req[r].port /\ req[r].port # <<>>
            THEN req[r].port ELSE <<>>]

\* src/main.go:379-390  the response of a request that created and started
SuccessResponse(r) ==
    [NoResponse EXCEPT
        !.status = 200, !.id = respID[r], !.name = containerName[r],
        !.image = imageName[r], !.port = actualPortMapping[r],
        !.note = (actualPortMapping[r] # req[r].port /\ req[r].port # <<>>),
        !.original_port =
            IF actualPortMapping[r] # req[r].port /\ req[r].port # <<>>
            THEN req[r].port ELSE <<>>]

\* src/main.go:325-392  cli.ContainerStart, its failure, the response
CreateStart(r) ==
    /\ pc[r] = "start"
    /\ \E out \in StartOutcomes(ContainerOf(respID[r])) :
        /\ Log(r, Call("start", FullId(respID[r]), <<>>, out))
        /\ IF out.ok
           THEN /\ \E ports \in StartPorts(ContainerOf(respID[r])) :
                       containers' = Started(respID[r], ports)
                /\ Reply(r, SuccessResponse(r))
           ELSE /\ Reply(r,
                    IF StartConflictType(out.msg) # ""
                    THEN [Error(409, "start_port_conflict") EXCEPT
                            !.id = respID[r],
                            !.conflict_type = StartConflictType(out.msg),
                            !.port_in_conflict = StartConflictPort(out.msg),
                            !.note = TRUE]
                    ELSE [Error(500, "start_failed") EXCEPT !.id = respID[r]])
                /\ UNCHANGED containers
    /\ UNCHANGED <<handlerVars, images, nextId, clock, req, localVars, seenVars>>

(***************************************************************************)
(* POST /images/pull (src/main.go:675-724).                                *)
(***************************************************************************)
\* src/main.go:675-680
ArrivePull(r) ==
    /\ pc[r] = "idle"
    /\ \E n \in PullNameInputs, t \in TagInputs :
        req' = [req EXCEPT ![r] =
                   [NoRequest EXCEPT !.kind = "pull", !.name = n, !.tag = t]]
    /\ pc' = [pc EXCEPT ![r] = "pullConnect"]
    /\ UNCHANGED <<handlerVars, daemonVars, clock, localVars, calls, response, cli, seenVars>>

\* src/main.go:682-688
PullConnect(r) ==
    /\ pc[r] = "pullConnect"
    /\ \E ok \in BOOLEAN :
        IF ok THEN pc' = [pc EXCEPT ![r] = "pullPing"] /\ Acquire(r)
                   /\ UNCHANGED response
        ELSE Reply(r, Error(500, "cannot_connect"))
    /\ UNCHANGED <<handlerVars, daemonVars, clock, req, localVars, calls, seenVars>>

\* src/main.go:696-699
PullImageName(q) == IF q.tag # <<>> THEN q.name \o <<":">> \o q.tag ELSE q.name

\* src/main.go:690-704  cli.Ping, then the image name and its check
PullPing(r) ==
    /\ pc[r] = "pullPing"
    /\ \E ok \in BOOLEAN :
        /\ Log(r, Call("ping", <<>>, <<>>, IF ok THEN Success ELSE Failure(MsgDown)))
        /\ IF ~ok
           THEN Reply(r, Error(500, "not_accessible")) /\ UNCHANGED imageName
           ELSE /\ imageName' = [imageName EXCEPT ![r] = PullImageName(req[r])]
                /\ IF PullImageName(req[r]) = <<>>
                   THEN Reply(r, Error(400, "image_name_required"))
                   ELSE pc' = [pc EXCEPT ![r] = "pullImage"] /\ UNCHANGED <<response, cli>>
    /\ UNCHANGED <<handlerVars, daemonVars, clock, req, containerName, hostConfig,
                   actualPortMapping, respID, seenVars>>

\* src/main.go:706-711  cli.ImagePull
PullImage(r) ==
    /\ pc[r] = "pullImage"
    /\ \E ok \in BOOLEAN :
        /\ Log(r, Call("imagePull", imageName[r], <<>>,
                       IF ok THEN Success ELSE Failure(MsgDown)))
        /\ IF ok THEN pc' = [pc EXCEPT ![r] = "pullDrain"] /\ UNCHANGED <<response, cli>>
           ELSE Reply(r, Error(500, "pull_failed"))
    /\ UNCHANGED <<handlerVars, daemonVars, clock, req, localVars, seenVars>>

\* src/main.go:714-723  io.Copy(io.Discard, reader), then the response
PullDrain(r) ==
    /\ pc[r] = "pullDrain"
    /\ \E ok \in BOOLEAN :
        IF ok
        THEN /\ images' = images \cup {imageName[r]}
             /\ Reply(r, [NoResponse EXCEPT !.status = 200,
                                            !.image = imageName[r]])
        ELSE /\ Reply(r, Error(500, "pull_read_failed"))
             /\ UNCHANGED images
    /\ UNCHANGED <<handlerVars, containers, nextId, clock, req, localVars, calls, seenVars>>

(***************************************************************************)
(* GET /stop/:id, /start/:id, /remove/:id (src/main.go:426-643).  The      *)
(* three handlers connect, ping, list the containers and look the target  *)
(* up in the same way.                                                     *)
(***************************************************************************)
\* src/main.go:443, 493, 610  ctx.Param("id")
ArriveById(r, kind, first) ==
    /\ pc[r] = "idle"
    /\ \E id \in IdInputs :
        req' = [req EXCEPT ![r] = [NoRequest EXCEPT !.kind = kind, !.id = id]]
    /\ pc' = [pc EXCEPT ![r] = first]
    /\ UNCHANGED <<handlerVars, daemonVars, clock, localVars, calls, response, cli,
                   seenVars>>

\* src/main.go:428-433  client.NewClientWithOpts
ConnectStep(r, here, next) ==
    /\ pc[r] = here
    /\ \E ok \in BOOLEAN :
        IF ok THEN pc' = [pc EXCEPT ![r] = next] /\ Acquire(r)
                   /\ UNCHANGED response
        ELSE Reply(r, Error(500, "cannot_connect"))
    /\ UNCHANGED <<handlerVars, daemonVars, clock, req, localVars, calls,
                   seenVars>>

\* src/main.go:436-441  cli.Ping
PingStep(r, here, next) ==
    /\ pc[r] = here
    /\ \E ok \in BOOLEAN :
        /\ Log(r, Call("ping", <<>>, <<>>,
                       IF ok THEN Success ELSE Failure(MsgDown)))
        /\ IF ok THEN pc' = [pc EXCEPT ![r] = next] /\ UNCHANGED <<response, cli>>
           ELSE Reply(r, Error(500, "not_accessible"))
    /\ UNCHANGED <<handlerVars, daemonVars, clock, req, localVars, seenVars>>

\* FindTarget taking any prefix of an id for the id
RECURSIVE FindTargetAnyPrefix(_, _, _, _)
FindTargetAnyPrefix(containerID, list, k, target) ==
    IF k > Len(list) THEN target
    ELSE IF /\ Len(containerID) <= IdLen
            /\ SubSeq(FullId(list[k].id), 1, Len(containerID)) = containerID
    THEN FullId(list[k].id)
    ELSE FindTargetAnyPrefix(containerID, list, k + 1,
             IF \E i \in 1..Len(list[k].names) :
                    TrimSlash(list[k].names[i]) = containerID
             THEN FullId(list[k].id) ELSE target)

\* src/main.go:452-465  the lookup loop from container k on: a match of the
\* id ends the loop, a match of a name ends only the loop over the names
RECURSIVE FindTarget(_, _, _, _)
FindTarget(containerID, list, k, target) ==
    IF k > Len(list) THEN target
    ELSE IF \/ FullId(list[k].id) = containerID
            \/ Prefix12(FullId(list[k].id)) = containerID
    THEN FullId(list[k].id)
    ELSE FindTarget(containerID, list, k + 1,
             IF \E i \in 1..Len(list[k].names) :
                    TrimSlash(list[k].names[i]) = containerID
             THEN FullId(list[k].id) ELSE target)

\* the ids of the containers of the list that have ref as id, as the first
\* IdLen characters of the id, or as a name without its leading "/"
Matching(ref, list) ==
    {FullId(list[k].id) : k \in
        {j \in 1..Len(list) :
            \/ FullId(list[j].id) = ref
            \/ /\ Len(ref) = IdLen
               /\ \A i \in 1..IdLen : FullId(list[j].id)[i] = ref[i]
            \/ \E i \in 1..Len(list[j].names) :
                   list[j].names[i] = <<"/">> \o ref}}

\* src/main.go:446-470  cli.ContainerList, the lookup, the 404
FindStep(r, here, next) ==
    /\ pc[r] = here
    /\ \E ok \in BOOLEAN :
        /\ Log(r, Call("containerList", <<>>, <<>>,
                       IF ok THEN Success ELSE Failure(MsgDown)))
        /\ IF ~ok
           THEN /\ Reply(r, Error(500, "list_failed"))
                /\ UNCHANGED <<targetContainer, targetSeen>>
           ELSE /\ targetContainer' = [targetContainer EXCEPT ![r] =
                       FindTarget(req[r].id, containers, 1, <<>>)]
                /\ targetSeen' = [targetSeen EXCEPT ![r] =
                       [read |-> TRUE,
                        matches |-> Matching(req[r].id, containers)]]
                /\ IF FindTarget(req[r].id, containers, 1, <<>>) = <<>>
                   THEN Reply(r, [Error(404, "not_found") EXCEPT
                                  !.target = req[r].id])
                   ELSE pc' = [pc EXCEPT ![r] = next] /\ UNCHANGED <<response, cli>>
    /\ UNCHANGED <<daemonVars, clock, req, localVars, seenVars, results,
                   successCount, errorCount, cursor, imageVars>>

\* src/main.go:472-476 and 638-642  the mutating call and the response
ActStep(r, here, op, failure) ==
    /\ pc[r] = here
    /\ \E out \in RefOutcomes(op, targetContainer[r]) :
        /\ Log(r, Call(op, targetContainer[r], <<>>, out))
        /\ IF out.ok
           THEN /\ containers' \in RefAfter(op, targetContainer[r])
                /\ Reply(r, [NoResponse EXCEPT !.status = 200,
                                               !.target = req[r].id])
           ELSE /\ Reply(r, Error(500, failure))
                /\ UNCHANGED containers
    /\ UNCHANGED <<handlerVars, images, nextId, clock, req, localVars,
                   seenVars>>

\* src/main.go:426-475  GET /stop/:id
ArriveStop(r) ==
    /\ req[r].kind = ""
    /\ ArriveById(r, "stop", "stopConnect")

StopConnect(r) ==
    /\ req[r].kind = "stop"
    /\ ConnectStep(r, "stopConnect", "stopPing")

StopPing(r) ==
    /\ req[r].kind = "stop"
    /\ PingStep(r, "stopPing", "stopFind")

StopFind(r) ==
    /\ req[r].kind = "stop"
    /\ FindStep(r, "stopFind", "stopCall")

StopContainer(r) ==
    /\ req[r].kind = "stop"
    /\ ActStep(r, "stopCall", "stop", "stop_failed")

\* src/main.go:594-643  GET /remove/:id
ArriveRemove(r) ==
    /\ req[r].kind = ""
    /\ ArriveById(r, "remove", "removeConnect")

RemoveConnect(r) ==
    /\ req[r].kind = "remove"
    /\ ConnectStep(r, "removeConnect", "removePing")

RemovePing(r) ==
    /\ req[r].kind = "remove"
    /\ PingStep(r, "removePing", "removeFind")

RemoveFind(r) ==
    /\ req[r].kind = "remove"
    /\ FindStep(r, "removeFind", "removeCall")

RemoveContainer(r) ==
    /\ req[r].kind = "remove"
    /\ ActStep(r, "removeCall", "remove", "remove_failed")

\* src/main.go:477-592  GET /start/:id
ArriveStart(r) ==
    /\ req[r].kind = ""
    /\ ArriveById(r, "start", "startConnect")

StartConnect(r) ==
    /\ req[r].kind = "start"
    /\ ConnectStep(r, "startConnect", "startPing")

StartPing(r) ==
    /\ req[r].kind = "start"
    /\ PingStep(r, "startPing", "startFind")

StartFind(r) ==
    /\ req[r].kind = "start"
    /\ FindStep(r, "startFind", "startInspect")

\* the answer of ContainerInspect on a reference: State.Running as text
Inspected(ref, out) ==
    IF out.ok
    THEN [ok |-> TRUE,
          msg |-> IF containers[DaemonFind(ref)].running
                  THEN <<"running">> ELSE <<"exited">>]
    ELSE out

\* StartInspect going on to ContainerStart whatever State.Running is
StartInspectUnchecked(r) ==
    /\ pc[r] = "startInspect"
    /\ \E out \in RefOutcomes("inspect", targetContainer[r]) :
        /\ Log(r, Call("inspect", targetContainer[r], <<>>,
                       Inspected(targetContainer[r], out)))
        /\ IF ~out.ok
           THEN Reply(r, Error(500, "inspect_failed"))
           ELSE pc' = [pc EXCEPT ![r] = "startCall"] /\ UNCHANGED <<response, cli>>
    /\ UNCHANGED <<handlerVars, daemonVars, clock, req, localVars, seenVars>>

\* src/main.go:528-541  cli.ContainerInspect, the 409 of a running container
StartInspect(r) ==
    /\ pc[r] = "startInspect"
    /\ \E out \in RefOutcomes("inspect", targetContainer[r]) :
        /\ Log(r, Call("inspect", targetContainer[r], <<>>,
                       Inspected(targetContainer[r], out)))
        /\ IF ~out.ok
           THEN Reply(r, Error(500, "inspect_failed"))
           ELSE IF Inspected(targetContainer[r], out).msg = <<"running">>
           THEN Reply(r, Error(409, "already_running"))
           ELSE pc' = [pc EXCEPT ![r] = "startCall"] /\ UNCHANGED <<response, cli>>
    /\ UNCHANGED <<handlerVars, daemonVars, clock, req, localVars, seenVars>>

\* src/main.go:544-591  cli.ContainerStart, its failure, the response
StartContainer(r) ==
    /\ pc[r] = "startCall"
    /\ \E out \in RefOutcomes("start", targetContainer[r]) :
        /\ Log(r, Call("start", targetContainer[r], <<>>, out))
        /\ IF out.ok
           THEN /\ containers' \in RefAfter("start", targetContainer[r])
                /\ Reply(r, [NoResponse EXCEPT
                                !.status = 200,
                                !.target = Prefix12(targetContainer[r])])
           ELSE /\ Reply(r,
                    IF \/ Contains(out.msg, BindHostPort)
                       \/ Contains(out.msg, AddressInUse)
                    THEN [Error(409, "port_conflict") EXCEPT
                            !.conflict_type = "port_conflict",
                            !.port_in_conflict = PortAfterAddress(out.msg)]
                    ELSE Error(500, "start_failed"))
                /\ UNCHANGED containers
    /\ UNCHANGED <<handlerVars, images, nextId, clock, req, localVars,
                   seenVars>>

(***************************************************************************)
(* POST /bulk/:action (src/main.go:1029-1091).                             *)
(***************************************************************************)
\* src/main.go:1030-1038  ShouldBindJSON, ctx.Param("action")
ArriveBulk(r) ==
    /\ pc[r] = "idle"
    /\ \E valid \in BOOLEAN, a \in BulkActions, ids \in TargetLists :
        IF valid
        THEN /\ req' = [req EXCEPT ![r] =
                        [NoRequest EXCEPT !.kind = "bulk", !.action = a,
                                          !.containers = ids]]
             /\ pc' = [pc EXCEPT ![r] = "bulkConnect"]
             /\ UNCHANGED <<response, cli>>
        ELSE /\ a = "start" /\ ids = <<>>
             /\ req' = [req EXCEPT ![r] = [NoRequest EXCEPT !.kind = "bulk"]]
             /\ Reply(r, Error(400, "invalid_json"))
    /\ UNCHANGED <<handlerVars, daemonVars, clock, localVars, calls, seenVars>>

\* src/main.go:1040-1049  client.NewClientWithOpts; results, successCount
\* and errorCount start empty and at 0
BulkConnect(r) ==
    /\ req[r].kind = "bulk"
    /\ ConnectStep(r, "bulkConnect", "bulkLoop")

\* BulkCall answering success for an action it does not know
BulkCallLenient(action, containerID) ==
    IF action \in KnownActions THEN RefOutcomes(action, containerID)
    ELSE {Success}

\* src/main.go:1054-1065  the switch on the action: the answers the call on
\* containerID may give, the error of the default branch
BulkCall(action, containerID) ==
    IF action \in KnownActions THEN RefOutcomes(action, containerID)
    ELSE {Failure(MsgUnknownAction(action))}

\* src/main.go:1067-1075  the entry of results
BulkEntry(containerID, out) ==
    [id |-> containerID, status |-> IF out.ok THEN "success" ELSE "error",
     message |-> out.msg]

\* results[containerID] = entry, on a map keyed by the container id
Put(map, entry) == {e \in map : e.id # entry.id} \cup {entry}

\* BulkApply leaving the loop at the first failure
BulkApplyUntilError(r) ==
    /\ pc[r] = "bulkLoop" /\ cursor[r] <= Len(req[r].containers)
    /\ LET action == req[r].action
           containerID == req[r].containers[cursor[r]]
       IN  \E out \in BulkCall(action, containerID) :
             /\ IF action \in KnownActions
                THEN /\ Log(r, Call(action, containerID, <<>>, out))
                     /\ IF out.ok
                        THEN containers' \in RefAfter(action, containerID)
                        ELSE UNCHANGED containers
                ELSE UNCHANGED <<calls, containers>>
             /\ results' = [results EXCEPT ![r] =
                                Put(@, BulkEntry(containerID, out))]
             /\ successCount' = [successCount EXCEPT ![r] =
                                     @ + (IF out.ok THEN 1 ELSE 0)]
             /\ errorCount' = [errorCount EXCEPT ![r] =
                                   @ + (IF out.ok THEN 0 ELSE 1)]
             /\ cursor' = [cursor EXCEPT ![r] =
                               IF out.ok THEN @ + 1
                               ELSE Len(req[r].containers) + 1]
    /\ UNCHANGED <<images, nextId, clock, req, pc, localVars, response, cli,
                   seenVars, targetContainer, targetSeen, imageVars>>

\* src/main.go:1051-1076  one turn of the loop over req.Containers
BulkApply(r) ==
    /\ pc[r] = "bulkLoop" /\ cursor[r] <= Len(req[r].containers)
    /\ LET action == req[r].action
           containerID == req[r].containers[cursor[r]]
       IN  \E out \in BulkCall(action, containerID) :
             /\ IF action \in KnownActions
                THEN /\ Log(r, Call(action, containerID, <<>>, out))
                     /\ IF out.ok
                        THEN containers' \in RefAfter(action, containerID)
                        ELSE UNCHANGED containers
                ELSE UNCHANGED <<calls, containers>>
             /\ results' = [results EXCEPT ![r] =
                                Put(@, BulkEntry(containerID, out))]
             /\ successCount' = [successCount EXCEPT ![r] =
                                     @ + (IF out.ok THEN 1 ELSE 0)]
             /\ errorCount' = [errorCount EXCEPT ![r] =
                                   @ + (IF out.ok THEN 0 ELSE 1)]
             /\ cursor' = [cursor EXCEPT ![r] = @ + 1]
    /\ UNCHANGED <<images, nextId, clock, req, pc, localVars, response, cli,
                   seenVars, targetContainer, targetSeen, imageVars>>

\* src/main.go:1078-1090  the response, cli, once the loop is over
BulkRespond(r) ==
    /\ pc[r] = "bulkLoop" /\ cursor[r] > Len(req[r].containers)
    /\ Reply(r, [NoResponse EXCEPT
                    !.status = 200, !.action = req[r].action,
                    !.results = results[r],
                    !.total = Len(req[r].containers),
                    !.success = successCount[r], !.errors = errorCount[r]])
    /\ UNCHANGED <<handlerVars, daemonVars, clock, req, localVars, calls,
                   seenVars>>

(***************************************************************************)
(* DELETE /images/:id (src/main.go:726-810).  An image reference is a      *)
(* repository, ":" and a tag; an image id is "sha256:" and its digits.     *)
(***************************************************************************)
Sha == <<"sha256:">>

\* the id the daemon gives the image of a reference
ImageId(ref) ==
    Sha \o (CASE ref = DefaultImage -> <<"a", "1">>
              [] ref = <<"redis", ":", "7">> -> <<"a", "2">>
              [] OTHER -> <<"b", "3">>)

\* strings.HasPrefix(s, prefix)
HasPrefix(s, prefix) ==
    Len(prefix) <= Len(s) /\ SubSeq(s, 1, Len(prefix)) = prefix

\* the images the daemon takes a reference for: a repository and tag, a
\* repository alone for its tag "latest", an id with or without "sha256:",
\* the first digits of an id
DaemonImages(ref) ==
    {x \in images :
        \/ x = ref
        \/ x = ref \o <<":", "latest">>
        \/ ImageId(x) = ref
        \/ /\ ref # <<>>
           /\ HasPrefix(Tail(ImageId(x)), ref)}

\* answers of ImageRemove(ref): a reference the daemon takes for no image,
\* or for several, is refused; any other removal may fail
ImageRemoveOutcomes(ref) ==
    IF Cardinality(DaemonImages(ref)) = 1
    THEN {Success, Failure(MsgDown)}
    ELSE {Failure(MsgNoImage)}

\* the lists cli.ImageList may return: the daemon's images in any order
ImageLists ==
    {list \in [1..Cardinality(images) ->
                  {[ID |-> ImageId(x), RepoTags |-> <<x>>] : x \in images}] :
        \A i, j \in 1..Cardinality(images) : list[i] = list[j] => i = j}

\* ctx.Param("id") of DELETE /images/:id
ImageParams ==
    {DefaultImage, <<"nginx">>, <<"latest">>, <<"redis", ":", "7">>,
     <<"redis">>, ImageId(DefaultImage), Tail(ImageId(DefaultImage)),
     <<"a">>, Sha \o <<"a">>, <<"zzz">>}

\* src/main.go:759-780  the tests of one image of the list
MatchesImage(img, imageID) ==
    \/ img.ID = imageID \/ img.ID = Sha \o imageID
    \/ HasPrefix(img.ID, Sha \o imageID) \/ HasPrefix(img.ID, imageID)
    \/ \E t \in 1..Len(img.RepoTags) :
           \/ img.RepoTags[t] = imageID
           \/ Contains(img.RepoTags[t], imageID)

\* src/main.go:757-784  targetImage: the id of the first image of the list
\* that passes a test, empty without one
FindImage(list, imageID) ==
    IF \E k \in 1..Len(list) : MatchesImage(list[k], imageID)
    THEN list[CHOOSE k \in 1..Len(list) :
                  /\ MatchesImage(list[k], imageID)
                  /\ \A j \in 1..(k - 1) : ~MatchesImage(list[j], imageID)].ID
    ELSE <<>>

\* img.ID[:12], here "sha256:" and the first digit
ShortImageId(id) == SubSeq(id, 1, 2)

\* src/main.go:788-794  availableImages: of every image its repo tags, then
\* the first characters of its id
RECURSIVE AvailableImages(_, _)
AvailableImages(list, k) ==
    IF k > Len(list) THEN <<>>
    ELSE list[k].RepoTags \o <<ShortImageId(list[k].ID)>>
             \o AvailableImages(list, k + 1)

\* src/main.go:741  ctx.Param("id")
ArriveImageRemove(r) ==
    /\ pc[r] = "idle"
    /\ \E id \in ImageParams :
        req' = [req EXCEPT ![r] =
                   [NoRequest EXCEPT !.kind = "imageRemove", !.id = id]]
    /\ pc' = [pc EXCEPT ![r] = "imageConnect"]
    /\ UNCHANGED <<handlerVars, daemonVars, clock, localVars, calls, response, cli,
                   seenVars>>

\* src/main.go:728-733
ImageRemoveConnect(r) ==
    /\ req[r].kind = "imageRemove"
    /\ ConnectStep(r, "imageConnect", "imagePing")

\* src/main.go:735-739
ImageRemovePing(r) ==
    /\ req[r].kind = "imageRemove"
    /\ PingStep(r, "imagePing", "imageDirect")

\* the daemon's side of a successful ImageRemove(ref)
ImageRemoved(r, ref) ==
    /\ images' = images \ DaemonImages(ref)
    /\ removedSeen' = [removedSeen EXCEPT ![r] = @ \cup DaemonImages(ref)]

\* src/main.go:744-748  cli.ImageRemove on the parameter as it came
ImageRemoveDirect(r) ==
    /\ pc[r] = "imageDirect"
    /\ \E out \in ImageRemoveOutcomes(req[r].id) :
        /\ Log(r, Call("imageRemove", req[r].id, <<>>, out))
        /\ IF out.ok
           THEN /\ ImageRemoved(r, req[r].id)
                /\ Reply(r, [NoResponse EXCEPT !.status = 200,
                                               !.target = req[r].id])
           ELSE /\ pc' = [pc EXCEPT ![r] = "imageList"]
                /\ UNCHANGED <<images, removedSeen, response, cli>>
    /\ UNCHANGED <<targetContainer, targetSeen, results, successCount,
                   errorCount, cursor, targetImage, containers, nextId, clock,
                   req, localVars, seenVars>>

\* src/main.go:751-801  cli.ImageList, the lookup, the 404
ImageRemoveFind(r) ==
    /\ pc[r] = "imageList"
    /\ \E ok \in BOOLEAN, list \in ImageLists :
        /\ Log(r, Call("imageList", <<>>, <<>>,
                       IF ok THEN Success ELSE Failure(MsgDown)))
        /\ IF ~ok
           THEN /\ Reply(r, Error(500, "list_failed"))
                /\ UNCHANGED targetImage
           ELSE /\ targetImage' = [targetImage EXCEPT ![r] =
                       FindImage(list, req[r].id)]
                /\ IF FindImage(list, req[r].id) = <<>>
                   THEN Reply(r, [Error(404, "image_not_found") EXCEPT
                                  !.target = req[r].id,
                                  !.available_images =
                                      AvailableImages(list, 1)])
                   ELSE /\ pc' = [pc EXCEPT ![r] = "imageRemove"]
                        /\ UNCHANGED <<response, cli>>
    /\ UNCHANGED <<targetContainer, targetSeen, results, successCount,
                   errorCount, cursor, removedSeen, daemonVars, clock, req,
                   localVars, seenVars>>

\* src/main.go:803-809  cli.ImageRemove on targetImage, the response
ImageRemoveTarget(r) ==
    /\ pc[r] = "imageRemove"
    /\ \E out \in ImageRemoveOutcomes(targetImage[r]) :
        /\ Log(r, Call("imageRemove", targetImage[r], <<>>, out))
        /\ IF out.ok
           THEN /\ ImageRemoved(r, targetImage[r])
                /\ Reply(r, [NoResponse EXCEPT !.status = 200,
                                               !.target = req[r].id])
           ELSE /\ Reply(r, Error(500, "remove_failed"))
                /\ UNCHANGED <<images, removedSeen>>
    /\ UNCHANGED <<targetContainer, targetSeen, results, successCount,
                   errorCount, cursor, targetImage, containers, nextId, clock,
                   req, localVars, seenVars>>

(***************************************************************************)
(* One request at a time against any of the initial daemon states.         *)
(***************************************************************************)
Next ==
    \/ ArriveCreate(1)
    \/ CreateConnect(1)
    \/ CreatePing(1)
    \/ CreateImageList(1)
    \/ CreateImagePull(1)
    \/ CreatePullRead(1)
    \/ CreateResolveName(1)
    \/ CreateConfigurePort(1)
    \/ CreateContainer(1)
    \/ CreateRetry(1)
    \/ CreateStart(1)
    \/ ArrivePull(1)
    \/ PullConnect(1)
    \/ PullPing(1)
    \/ PullImage(1)
    \/ PullDrain(1)
    \/ ArriveStop(1)
    \/ StopConnect(1)
    \/ StopPing(1)
    \/ StopFind(1)
    \/ StopContainer(1)
    \/ ArriveStart(1)
    \/ StartConnect(1)
    \/ StartPing(1)
    \/ StartFind(1)
    \/ StartInspect(1)
    \/ StartContainer(1)
    \/ ArriveRemove(1)
    \/ RemoveConnect(1)
    \/ RemovePing(1)
    \/ RemoveFind(1)
    \/ RemoveContainer(1)
    \/ ArriveBulk(1)
    \/ BulkConnect(1)
    \/ BulkApply(1)
    \/ BulkRespond(1)

Spec == Init /\ [][Next]_vars

(***************************************************************************)
(* Two concurrent POST /create that ask for the same name, which the       *)
(* daemon does not hold when they arrive.  gin serves each request on its  *)
(* own goroutine, so their steps interleave in any order.                  *)
(***************************************************************************)
RaceName == <<"web">>

\* container lists and image sets the daemon may hold when the two arrive
RaceContainers == {<<>>, <<Listed(1, <<"db">>, {})>>}

RaceImages == {{}, {DefaultImage}}

RaceInit ==
    /\ containers \in RaceContainers
    /\ images \in RaceImages
    /\ nextId = 3
    /\ clock = [sec |-> StartSec, nsec |-> 0]
    /\ Idle

\* src/main.go:66-71  ShouldBindJSON of {"name": "web"}
ArriveSameName(r) ==
    /\ pc[r] = "idle"
    /\ req' = [req EXCEPT ![r] =
               [NoRequest EXCEPT !.kind = "create", !.name = RaceName]]
    /\ pc' = [pc EXCEPT ![r] = "connect"]
    /\ UNCHANGED <<handlerVars, daemonVars, clock, localVars, calls, response, cli,
                   seenVars>>

NextRace ==
    \E r \in Slots :
        \/ ArriveSameName(r)
        \/ CreateConnect(r)
        \/ CreatePing(r)
        \/ CreateImageList(r)
        \/ CreateImagePull(r)
        \/ CreatePullRead(r)
        \/ CreateResolveName(r)
        \/ CreateConfigurePort(r)
        \/ CreateContainer(r)
        \/ CreateRetry(r)
        \/ CreateStart(r)

SpecRace == RaceInit /\ [][NextRace]_vars

(***************************************************************************)
(* Two concurrent POST /create that ask for the same host port, which no   *)
(* container publishes when they arrive, under two names and for the      *)
(* default image, which the daemon holds.                                  *)
(***************************************************************************)
RacePort == 9000

RacePortNames == <<<<"web">>, <<"api">>>>

PortRaceInit ==
    /\ containers = <<>>
    /\ images = {DefaultImage}
    /\ nextId = 3
    /\ clock = [sec |-> StartSec, nsec |-> 0]
    /\ Idle

\* src/main.go:66-71  ShouldBindJSON of {"name": ..., "port": "9000:80"}
ArriveSamePort(r) ==
    /\ pc[r] = "idle"
    /\ req' = [req EXCEPT ![r] =
               [NoRequest EXCEPT !.kind = "create", !.name = RacePortNames[r],
                                 !.port = PortSpec(RacePort, 80)]]
    /\ pc' = [pc EXCEPT ![r] = "connect"]
    /\ UNCHANGED <<handlerVars, daemonVars, clock, localVars, calls, response, cli,
                   seenVars>>

\* the daemon has answered every listing of request r
ListingsAnswered(r) ==
    \A i \in 1..Len(calls[r]) :
        calls[r][i].op \in {"imageList", "containerList"} => calls[r][i].ok

\* the listing steps of the handler in the runs in which the daemon answers
\* them: both port searches then see the daemon's containers
RaceImageList(r) == CreateImageList(r) /\ ListingsAnswered(r)'

RaceResolveName(r) == CreateResolveName(r) /\ ListingsAnswered(r)'

RaceConfigurePort(r) == CreateConfigurePort(r) /\ ListingsAnswered(r)'

NextPortRace ==
    \E r \in Slots :
        \/ ArriveSamePort(r)
        \/ CreateConnect(r)
        \/ CreatePing(r)
        \/ RaceImageList(r)
        \/ RaceResolveName(r)
        \/ RaceConfigurePort(r)
        \/ CreateContainer(r)
        \/ CreateRetry(r)
        \/ CreateStart(r)

SpecPortRace == PortRaceInit /\ [][NextPortRace]_vars

(***************************************************************************)
(* DELETE /images/:id, one request or two at a time, against a daemon     *)
(* that holds one or two images.                                           *)
(***************************************************************************)
HeldImages == {{DefaultImage}, {DefaultImage, <<"redis", ":", "7">>}}

ImagesInit ==
    /\ containers = <<>>
    /\ images \in HeldImages
    /\ nextId = 3
    /\ clock = [sec |-> StartSec, nsec |-> 0]
    /\ Idle

NextImages ==
    \E r \in Slots :
        \/ ArriveImageRemove(r)
        \/ ImageRemoveConnect(r)
        \/ ImageRemovePing(r)
        \/ ImageRemoveDirect(r)
        \/ ImageRemoveFind(r)
        \/ ImageRemoveTarget(r)

SpecImages == ImagesInit /\ [][NextImages]_vars

(***************************************************************************)
(* Properties.                                                             *)
(***************************************************************************)
CreateCalls(r) == SelectSeq(calls[r], LAMBDA c : c.op = "create")

IsCreate(r) == req[r].kind = "create"

Done(r) == pc[r] = "done"

AllDigits(text) == \A k \in 1..Len(text) : IsDigit(text[k])

\* C1: a createContainer failure whose message has "already in use" and
\* "container name" is retried once, with "-" and the nanosecond time
\* appended to the name; a request issues at most two createContainer
\* calls, the second only after such a failure of the first, and a failure
\* of the second is surfaced.
C1_RetryOnce ==
    \A r \in Slots :
        LET cc == CreateCalls(r)
            conflict(c) == /\ ~c.ok
                           /\ Contains(c.msg, <<"already", "in", "use">>)
                           /\ Contains(c.msg, <<"container", "name">>)
        IN  /\ Len(cc) <= 2
            /\ Len(cc) >= 1 /\ conflict(cc[1]) => Len(cc) = 2 \/ pc[r] = "retry"
            /\ Len(cc) >= 1 /\ ~conflict(cc[1]) => Len(cc) = 1 /\ pc[r] # "retry"
            /\ Len(cc) = 2 =>
                 LET n == Len(cc[1].name)
                     suffix == SubSeq(cc[2].name, n + 2, Len(cc[2].name))
                 IN  /\ SubSeq(cc[2].name, 1, n + 1) = cc[1].name \o <<"-">>
                     /\ Len(suffix) = Len(Itoa(clock.sec)) + 9
                     /\ AllDigits(suffix)
                     /\ SubSeq(suffix, 1, Len(suffix) - 9) \in
                            {Itoa(t) : t \in StartSec..clock.sec}
            /\ Len(cc) = 2 /\ ~cc[2].ok =>
                 Done(r) /\ response[r].status = 500

C1_Witness ==
    \E r \in Slots :
        /\ Done(r) /\ Len(CreateCalls(r)) = 2
        /\ ~CreateCalls(r)[2].ok
        /\ IsNameConflict(CreateCalls(r)[2].msg)

C3_NeverListenPort ==
    \A r \in Slots :
        \A k \in 1..Len(calls[r]) :
            calls[r][k].op = "create" /\ calls[r][k].port # <<>> =>
                AtoiVal(calls[r][k].port) # ListenPort

WellFormedPort(p) ==
    /\ Len(SplitColon(p)) = 2
    /\ AtoiOk(SplitColon(p)[1])

\* C4: a well-formed request H:C whose host port is neither reserved nor
\* published keeps H: the search settles H, every createContainer call
\* carries the host port as requested, and a success response reports the
\* requested H:C without a note.
C4_FreePortKept ==
    \A r \in Slots :
        /\ IsCreate(r) /\ WellFormedPort(req[r].port)
        /\ portSeen[r].read /\ ~portSeen[r].taken
        => /\ portSeen[r].found
           /\ hostConfig[r].HostPort = SplitColon(req[r].port)[1]
           /\ \A k \in 1..Len(CreateCalls(r)) :
                  CreateCalls(r)[k].port = SplitColon(req[r].port)[1]
           /\ response[r].error \notin {"port_unavailable", "invalid_host_port"}
           /\ Done(r) /\ response[r].status = 200 =>
                  response[r].port = req[r].port /\ ~response[r].note

C4_Witness ==
    \E r \in Slots :
        /\ IsCreate(r) /\ WellFormedPort(req[r].port)
        /\ portSeen[r].read /\ ~portSeen[r].taken
        /\ Done(r) /\ response[r].status = 200
        /\ response[r].port = PortSpec(9000, 80)

\* C5: when the requested host port is reserved or published and no port of
\* H+1..ScanMax or FallbackMin..ScanMax is free, the request ends with the
\* port-exhausted conflict (409, port_unavailable) and issues no
\* createContainer call.
C5_Exhausted ==
    \A r \in Slots :
        portSeen[r].read /\ portSeen[r].taken /\ ~portSeen[r].freeExists =>
            /\ CreateCalls(r) = <<>>
            /\ Done(r)
            /\ response[r].status = 409
            /\ response[r].conflict_type = "port_unavailable"

MalformedPort(p) == p # <<>> /\ ~WellFormedPort(p)

\* C6: a create request with a non-empty malformed port ends with status
\* 400 (or fails before its port is read) and creates no container.
C6_MalformedRefused ==
    \A r \in Slots :
        IsCreate(r) /\ MalformedPort(req[r].port) =>
            /\ CreateCalls(r) = <<>>
            /\ pc[r] \notin {"create", "retry", "start"}
            /\ Done(r) => response[r].status \in {400, 500}

\* C7: the 400 for a malformed port spec and the 400 for a missing image
\* name are sent with no daemon call issued by that request.
C7_InputErrorBeforeDaemon ==
    \A r \in Slots :
        /\ Done(r) /\ response[r].status = 400
        /\ response[r].error \in {"invalid_host_port", "image_name_required"}
        => calls[r] = <<>>

\* C8: every createContainer call that carries a port binding has a host
\* port in 1..65535.
C8_HostPortRange ==
    \A r \in Slots :
        \A k \in 1..Len(calls[r]) :
            calls[r][k].op = "create" /\ calls[r][k].port # <<>> =>
                AtoiVal(calls[r][k].port) \in 1..65535

\* C9: a requested name that is a name of a listed container is resolved
\* to that name followed by one "-<unix seconds>" suffix, and the resolved
\* name is no name of the list.
C9_CollidingNameSuffixed ==
    \A r \in Slots :
        /\ nameSeen[r].read /\ nameSeen[r].listed
        /\ req[r].name \in nameSeen[r].names
        => /\ nameSeen[r].resolved =
                  req[r].name \o <<"-">> \o Itoa(nameSeen[r].at)
           /\ nameSeen[r].resolved \notin nameSeen[r].names

\* C10: a requested name that no known container has is resolved to itself
\* and is the name of the first createContainer call.
C10_FreeNameKept ==
    \A r \in Slots :
        /\ IsCreate(r) /\ req[r].name # <<>>
        /\ nameSeen[r].read /\ req[r].name \notin nameSeen[r].names
        => /\ nameSeen[r].resolved = req[r].name
           /\ pc[r] \in {"port", "create"} => containerName[r] = req[r].name
           /\ Len(CreateCalls(r)) >= 1 => CreateCalls(r)[1].name = req[r].name

C10_Witness ==
    \E r \in Slots :
        /\ IsCreate(r) /\ req[r].name = <<"web">>
        /\ nameSeen[r].read /\ nameSeen[r].listed
        /\ nameSeen[r].names # {} /\ <<"web">> \notin nameSeen[r].names
        /\ Len(CreateCalls(r)) >= 1 /\ CreateCalls(r)[1].ok

\* C11: a name the handler invents for a request that names no container
\* is not the name of any container the daemon holds when the name is
\* resolved, the containers created earlier in the same second included.
C11_InventedNameFree ==
    \A r \in Slots :
        IsCreate(r) /\ req[r].name = <<>> /\ nameSeen[r].read
            => nameSeen[r].resolved \notin nameSeen[r].names

StartCalls(r) == SelectSeq(calls[r], LAMBDA c : c.op = "start")

\* the ContainerStart of create request r failed
StartFailed(r) ==
    /\ IsCreate(r) /\ Done(r)
    /\ StartCalls(r) # <<>> /\ ~StartCalls(r)[1].ok

\* the container create request r made is held by the daemon, not running
LeftStopped(r) ==
    \E k \in 1..Len(containers) :
        /\ containers[k].id = respID[r]
        /\ ~containers[k].running /\ containers[k].ports = {}

\* C12 (as stated): whenever ContainerStart fails after a successful create,
\* of a port conflict or of anything else, the response carries the id of
\* the created container and the note that it was created but could not be
\* started, the container stays in the daemon, and the request issues no
\* further create or start.
C12_StartFailureNoted ==
    \A r \in Slots :
        StartFailed(r)
            => /\ response[r].id = respID[r] /\ response[r].note
               /\ LeftStopped(r)
               /\ calls[r][Len(calls[r])].op = "start"
               /\ Len(StartCalls(r)) = 1

\* C12 (amended): whenever ContainerStart fails after a successful create,
\* the response carries the id of the created container, the container
\* stays in the daemon, not running, and the request issues no further
\* create or start; the response is the 409 with the created-but-not-started
\* note exactly when the failure message has "bind host port" or "address
\* already in use", and the 500 without that note otherwise.
C12_StartFailureKept ==
    \A r \in Slots :
        StartFailed(r)
            => /\ response[r].id = respID[r] /\ respID[r] # 0
               /\ LeftStopped(r)
               /\ calls[r][Len(calls[r])].op = "start"
               /\ Len(StartCalls(r)) = 1
               /\ LET msg == StartCalls(r)[1].msg
                      conflict == \/ Contains(msg, BindHostPort)
                                  \/ Contains(msg, AddressInUse)
                  IN  /\ response[r].note <=> conflict
                      /\ response[r].status = IF conflict THEN 409 ELSE 500

C12_Witness ==
    \E r \in Slots :
        /\ StartFailed(r) /\ response[r].status = 500
        /\ response[r].id = respID[r] /\ ~response[r].note
        /\ Len(CreateCalls(r)) = 2
        /\ Contains(StartCalls(r)[1].msg, <<"already", "allocated">>)

\* the step of POST /create a daemon call belongs to
StepOf(op) ==
    CASE op = "ping" -> 0
      [] op \in {"imageList", "imagePull"} -> 1
      [] op = "containerList" -> 2
      [] op = "create" -> 3
      [] op = "start" -> 4
      [] OTHER -> 5

\* C13: the steps of POST /create run one after the other, image, then
\* name, then port, then create, then start; ContainerStart is issued only
\* after a successful ContainerCreate and on the id that create returned;
\* the 200 is sent only after ContainerStart succeeded.
C13_Sequential ==
    \A r \in Slots :
        IsCreate(r) =>
            /\ \A i, j \in 1..Len(calls[r]) :
                   i < j => StepOf(calls[r][i].op) <= StepOf(calls[r][j].op)
            /\ nameSeen[r].read
                   => /\ imageName[r] # <<>>
                      /\ \E i \in 1..Len(calls[r]) : calls[r][i].op = "imageList"
            /\ portSeen[r].read => nameSeen[r].read /\ containerName[r] # <<>>
            /\ CreateCalls(r) # <<>>
                   => /\ nameSeen[r].read
                      /\ CreateCalls(r)[1].name = nameSeen[r].resolved
                      /\ req[r].port # <<>> /\ Len(SplitColon(req[r].port)) = 2
                             => /\ portSeen[r].read /\ portSeen[r].found
                                /\ AtoiVal(CreateCalls(r)[1].port)
                                       = portSeen[r].settled
            /\ pc[r] = "start"
                   => /\ calls[r][Len(calls[r])].op = "create"
                      /\ calls[r][Len(calls[r])].ok
            /\ \A j \in 1..Len(calls[r]) :
                   calls[r][j].op = "start"
                       => /\ j > 1 /\ j = Len(calls[r])
                          /\ calls[r][j - 1].op = "create" /\ calls[r][j - 1].ok
                          /\ calls[r][j].name = FullId(respID[r])
                          /\ ContainerOf(respID[r]).names
                                 = <<<<"/">> \o calls[r][j - 1].name>>
            /\ response[r].status = 200
                   => /\ StartCalls(r) # <<>> /\ StartCalls(r)[1].ok
                      /\ response[r].id = respID[r]
                      /\ ContainerOf(respID[r]).running

C13_Witness ==
    \E r \in Slots :
        /\ IsCreate(r) /\ response[r].status = 200
        /\ \E i \in 1..Len(calls[r]) : calls[r][i].op = "imagePull"
        /\ portSeen[r].read /\ nameSeen[r].listed
        /\ Len(CreateCalls(r)) = 2 /\ StartCalls(r)[1].ok

\* C14: ContainerCreate is never issued unless the image reference was
\* found in the local image list, or a pull of it was issued and its output
\* read to the end without error; when the image is listed locally no pull
\* is issued.
C14_ImageEnsured ==
    \A r \in Slots :
        IsCreate(r) /\ CreateCalls(r) # <<>>
            => LET listed == \E i \in 1..Len(calls[r]) :
                                 calls[r][i].op = "imageList" /\ calls[r][i].ok
                   pulled == \E i \in 1..Len(calls[r]) :
                                 calls[r][i].op = "imagePull" /\ calls[r][i].ok
               IN  /\ listed
                   /\ imageName[r] \in images
                   /\ pulled => imageName[r] # DefaultImage

\* C15: every handler connects and pings first: no daemon operation other
\* than the ping is issued by a request unless a ping of the same request
\* succeeded before it.
C15_PingFirst ==
    \A r \in Slots :
        \A i \in 1..Len(calls[r]) :
            calls[r][i].op # "ping"
                => \E j \in 1..(i - 1) :
                       calls[r][j].op = "ping" /\ calls[r][j].ok

IsBulk(r) == req[r].kind = "bulk"

\* C16 (as stated): a bulk request, whatever its action, has issued one
\* daemon call for each of its targets, in input order, when it answers, and
\* in its response success + errors = total = the number of targets.
C16_OneCallPerTarget ==
    \A r \in Slots :
        IsBulk(r) /\ response[r].status = 200
            => /\ Len(calls[r]) = Len(req[r].containers)
               /\ \A i \in 1..Len(calls[r]) :
                      calls[r][i].name = req[r].containers[i]
               /\ response[r].success + response[r].errors = response[r].total
               /\ response[r].total = Len(req[r].containers)

\* C16 (amended): a bulk request takes its targets one by one in input
\* order; for the actions start, stop, remove and restart it issues one
\* daemon call of that action for each of them, whatever the earlier calls
\* answered, and for any other action it issues none; in its response
\* success + errors = total = the number of targets of the request.
C16_BulkInOrder ==
    \A r \in Slots :
        IsBulk(r) =>
            /\ successCount[r] + errorCount[r] = cursor[r] - 1
            /\ req[r].action \notin KnownActions => calls[r] = <<>>
            /\ req[r].action \in KnownActions
                   => /\ Len(calls[r]) = cursor[r] - 1
                      /\ \A i \in 1..Len(calls[r]) :
                             /\ calls[r][i].op = req[r].action
                             /\ calls[r][i].name = req[r].containers[i]
            /\ response[r].status = 200
                   => /\ cursor[r] = Len(req[r].containers) + 1
                      /\ response[r].total = Len(req[r].containers)
                      /\ response[r].success + response[r].errors
                             = response[r].total
                      /\ req[r].action \in KnownActions
                             => /\ Len(calls[r]) = Len(req[r].containers)
                                /\ response[r].success
                                       = Cardinality({i \in 1..Len(calls[r]) :
                                                         calls[r][i].ok})

C16_Witness ==
    \E r \in Slots :
        /\ IsBulk(r) /\ response[r].status = 200
        /\ req[r].action = "stop" /\ Len(req[r].containers) = MaxTargets
        /\ Len(calls[r]) = MaxTargets
        /\ ~calls[r][1].ok /\ calls[r][MaxTargets].ok
        /\ response[r].success >= 1 /\ response[r].errors >= 1

\* C17: the response of a bulk request has one outcome for each target: for
\* every list of targets, the lists that repeat an id included, results has
\* total entries, errors of them errors and success of them successes.
C17_OneOutcomePerTarget ==
    \A r \in Slots :
        IsBulk(r) /\ response[r].status = 200
            => /\ Cardinality(response[r].results) = response[r].total
               /\ Cardinality({e \in response[r].results : e.status = "error"})
                      = response[r].errors
               /\ Cardinality({e \in response[r].results : e.status = "success"})
                      = response[r].success

\* C18: a bulk request with an action other than start, stop, remove and
\* restart issues no daemon call, gives every target the error "unknown
\* action", and still answers 200 with the results and a summary whose
\* errors = total.
C18_UnknownAction ==
    \A r \in Slots :
        IsBulk(r) /\ pc[r] # "idle" /\ req[r].action \notin KnownActions
            => /\ calls[r] = <<>>
               /\ \A e \in results[r] :
                      /\ e.status = "error"
                      /\ e.message = <<"unknown", "action", ":", req[r].action>>
               /\ successCount[r] = 0
               /\ Done(r) /\ response[r].error \notin {"invalid_json", "cannot_connect"}
                      => /\ response[r].status = 200
                         /\ response[r].errors = Len(req[r].containers)
                         /\ response[r].total = Len(req[r].containers)
                         /\ response[r].success = 0
                         /\ response[r].results = results[r]
                         /\ \A i \in 1..Len(req[r].containers) :
                                \E e \in response[r].results :
                                    e.id = req[r].containers[i]

C18_Witness ==
    \E r \in Slots :
        /\ IsBulk(r) /\ req[r].action = "pause" /\ response[r].status = 200
        /\ Len(req[r].containers) = MaxTargets
        /\ response[r].errors = MaxTargets /\ response[r].results # {}

IsById(r) == req[r].kind \in {"stop", "start", "remove"}

Mutating(op) == op \in {"stop", "start", "remove", "restart"}

\* C19: /stop, /start and /remove issue their mutating call only on a
\* container that has the requested text as its id, as the first 12
\* characters of its id, or as its name without the leading "/"; when no
\* container the daemon lists matches, the response is the 404 that echoes
\* the requested text, and no stop, start or remove is issued.
C19_TargetMatches ==
    \A r \in Slots :
        IsById(r) =>
            /\ \A i \in 1..Len(calls[r]) :
                   Mutating(calls[r][i].op)
                       => /\ calls[r][i].op = req[r].kind
                          /\ targetSeen[r].read
                          /\ calls[r][i].name \in targetSeen[r].matches
            /\ targetSeen[r].read /\ targetSeen[r].matches = {}
                   => /\ Done(r) /\ response[r].status = 404
                      /\ response[r].target = req[r].id
                      /\ \A i \in 1..Len(calls[r]) : ~Mutating(calls[r][i].op)
            /\ response[r].status = 404 => targetSeen[r].matches = {}

C19_Witness ==
    \E r \in Slots :
        /\ req[r].kind = "remove" /\ req[r].id = Prefix12(FullId(1))
        /\ Done(r) /\ response[r].status = 200
        /\ calls[r][Len(calls[r])].op = "remove"
        /\ calls[r][Len(calls[r])].name = FullId(1)
        /\ \A k \in 1..Len(containers) : containers[k].id # 1

\* the daemon holds a container with this id under this name
Holds(id, name) ==
    \E k \in 1..Len(containers) :
        /\ containers[k].id = id
        /\ containers[k].names = <<<<"/">> \o name>>

\* C20: of two concurrent POST /create that ask for the same name, unknown
\* to the daemon when they arrive, no two creates succeed under one name:
\* the request whose ContainerCreate comes second under the name gets the
\* name conflict and retries once, with the name and a "-" and the
\* nanosecond clock reading; whenever both answer 200 the names they report
\* differ and each is the name the daemon holds for the id of the response.
C20_SameNameRace ==
    /\ \A r \in Slots :
           IsCreate(r) =>
               /\ Len(CreateCalls(r)) <= 2
               /\ Len(CreateCalls(r)) = 2
                      => LET first == CreateCalls(r)[1]
                             second == CreateCalls(r)[2]
                         IN  /\ ~first.ok
                             /\ Contains(first.msg, AlreadyInUse)
                             /\ Contains(first.msg, ContainerNameMark)
                             /\ Len(second.name) = Len(first.name) + 20
                             /\ SubSeq(second.name, 1, Len(first.name) + 1)
                                    = first.name \o <<"-">>
                             /\ AllDigits(SubSeq(second.name,
                                                 Len(first.name) + 2,
                                                 Len(second.name)))
               /\ CreateCalls(r) # <<>> /\ ~CreateCalls(r)[1].ok
                      => IF /\ Contains(CreateCalls(r)[1].msg, AlreadyInUse)
                            /\ Contains(CreateCalls(r)[1].msg, ContainerNameMark)
                         THEN pc[r] = "retry" \/ Len(CreateCalls(r)) = 2
                         ELSE Done(r) /\ Len(CreateCalls(r)) = 1
               /\ response[r].status = 200
                      => Holds(response[r].id, response[r].name)
    /\ \A r1, r2 \in Slots :
           r1 # r2 /\ IsCreate(r1) /\ IsCreate(r2)
               => /\ \A i \in 1..Len(CreateCalls(r1)), j \in 1..Len(CreateCalls(r2)) :
                         CreateCalls(r1)[i].ok /\ CreateCalls(r2)[j].ok
                             => CreateCalls(r1)[i].name # CreateCalls(r2)[j].name
                  /\ response[r1].status = 200 /\ response[r2].status = 200
                         => /\ response[r1].name # response[r2].name
                            /\ response[r1].id # response[r2].id

C20_Witness ==
    \E r1, r2 \in Slots :
        /\ r1 # r2
        /\ response[r1].status = 200 /\ response[r2].status = 200
        /\ response[r1].name = RaceName
        /\ nameSeen[r2].listed /\ nameSeen[r2].resolved = RaceName
        /\ Len(CreateCalls(r1)) = 1 /\ Len(CreateCalls(r2)) = 2
        /\ CreateCalls(r2)[1].name = RaceName
        /\ response[r2].name = CreateCalls(r2)[2].name

\* the container create request r made runs and publishes host port p
RunsWith(r, p) ==
    \E k \in 1..Len(containers) :
        /\ containers[k].id = respID[r] /\ respID[r] # 0
        /\ containers[k].running /\ p \in containers[k].ports

\* the daemon's refusals of a start for a host port that is held
PortRefusals(p) ==
    {MsgAllocated(Itoa(p)), MsgBindHostPort(Itoa(p)), MsgListenInUse(Itoa(p))}

\* the search of request r listed the containers, met p free and settled it
PlannedWith(r, p) ==
    /\ portSeen[r].read /\ portSeen[r].allListed
    /\ portSeen[r].h = p /\ ~portSeen[r].taken /\ portSeen[r].settled = p

\* C21: two concurrent POST /create ask for the same free host port H and
\* nothing reserves H, so both may settle H; at most one of the two
\* containers runs with H, and the request whose ContainerStart the daemon
\* refuses for H is answered 409 and never 200.
C21_PortRace ==
    /\ ~(RunsWith(1, RacePort) /\ RunsWith(2, RacePort))
    /\ \A r1, r2 \in Slots :
           (/\ r1 # r2
            /\ PlannedWith(r1, RacePort) /\ PlannedWith(r2, RacePort)
            /\ RunsWith(r1, RacePort)
            /\ IsCreate(r2) /\ Done(r2)
            /\ StartCalls(r2) # <<>>
            /\ ~StartCalls(r2)[1].ok
            /\ StartCalls(r2)[1].msg \in PortRefusals(RacePort))
               => response[r2].status = 409

\* the first ContainerCreate of request r failed, and not for its name
CreateFailedOther(r) ==
    /\ IsCreate(r) /\ Done(r) /\ CreateCalls(r) # <<>>
    /\ ~CreateCalls(r)[1].ok
    /\ ~(/\ Contains(CreateCalls(r)[1].msg, AlreadyInUse)
         /\ Contains(CreateCalls(r)[1].msg, ContainerNameMark))

\* C22: a ContainerCreate failure that is no name conflict is answered 409
\* as a port conflict, after that one call, when its message contains
\* "bind host port", and is answered 500 otherwise.
C22_CreateFailureClassified ==
    \A r \in Slots :
        CreateFailedOther(r) =>
            IF Contains(CreateCalls(r)[1].msg, BindHostPort)
            THEN /\ response[r].status = 409
                 /\ response[r].conflict_type = "system_port_conflict"
                 /\ Len(CreateCalls(r)) = 1
            ELSE response[r].status = 500

\* the host ports the requests and the daemon's containers bind, as text
BoundPorts ==
    ({hostConfig[r].HostPort : r \in Slots}
        \cup {containers[k].bind : k \in 1..Len(containers)}) \ {<<>>}

\* msg contains "bind host port" and "0.0.0.0:p:"
BindFailureFor(msg, p) ==
    /\ Contains(msg, BindHostPort)
    /\ Contains(msg, <<"0.0.0.0", ":">> \o p \o <<":">>)

\* msg contains "bind host port" and no "0.0.0.0:" with a text and a colon
\* after it
BindFailureBare(msg) ==
    /\ Contains(msg, BindHostPort)
    /\ ~\E k \in 1..(Len(msg) - 3) :
            /\ msg[k] = "0.0.0.0" /\ msg[k + 1] = ":" /\ msg[k + 2] # ":"
            /\ \E e \in (k + 3)..Len(msg) : msg[e] = ":"

\* the call that ended request r: its last ContainerCreate, which failed
CreateEnded(r) ==
    /\ IsCreate(r) /\ Done(r) /\ CreateCalls(r) # <<>>
    /\ ~CreateCalls(r)[Len(CreateCalls(r))].ok

LastCreateMsg(r) == CreateCalls(r)[Len(CreateCalls(r))].msg

\* GET /start/:id of request r called ContainerStart, which failed
StartByIdFailed(r) ==
    /\ req[r].kind = "start" /\ Done(r)
    /\ StartCalls(r) # <<>> /\ ~StartCalls(r)[1].ok

C23_AtCreate ==
    \A r \in Slots :
        CreateEnded(r) =>
            /\ \A p \in BoundPorts :
                   BindFailureFor(LastCreateMsg(r), p) =>
                       /\ response[r].status = 409
                       /\ response[r].port_in_use = p
            /\ BindFailureBare(LastCreateMsg(r)) =>
                   response[r].port_in_use \in {<<>>, Unknown}

C23_AtCreateStart ==
    \A r \in Slots :
        StartFailed(r) =>
            /\ \A p \in BoundPorts :
                   BindFailureFor(StartCalls(r)[1].msg, p) =>
                       /\ response[r].status = 409
                       /\ response[r].port_in_conflict = p
            /\ BindFailureBare(StartCalls(r)[1].msg) =>
                   response[r].port_in_conflict = <<>>

C23_AtStartById ==
    \A r \in Slots :
        StartByIdFailed(r) =>
            /\ \A p \in BoundPorts :
                   BindFailureFor(StartCalls(r)[1].msg, p) =>
                       /\ response[r].status = 409
                       /\ response[r].port_in_conflict = p
            /\ BindFailureBare(StartCalls(r)[1].msg) =>
                   response[r].port_in_conflict = <<>>

\* C23: a failure message of the daemon that contains "bind host port" and
\* "0.0.0.0:p:" is answered as a port conflict that reports the port p, at
\* ContainerCreate and ContainerStart of POST /create and at ContainerStart
\* of GET /start/:id; without such a text no port is reported.
C23_ConflictPortReported ==
    C23_AtCreate /\ C23_AtCreateStart /\ C23_AtStartById

\* msg contains "address already in use", not "bind host port", and
\* "0.0.0.0:p:"
AddressFailureFor(msg, p) ==
    /\ Contains(msg, AddressInUse) /\ ~Contains(msg, BindHostPort)
    /\ Contains(msg, <<"0.0.0.0", ":">> \o p \o <<":">>)

C24_AtCreateStart ==
    \A r \in Slots, p \in BoundPorts :
        StartFailed(r) /\ AddressFailureFor(StartCalls(r)[1].msg, p) =>
            /\ response[r].status = 409
            /\ response[r].port_in_conflict = p

C24_AtStartById ==
    \A r \in Slots, p \in BoundPorts :
        StartByIdFailed(r) /\ AddressFailureFor(StartCalls(r)[1].msg, p) =>
            /\ response[r].status = 409
            /\ response[r].port_in_conflict = p

\* C24: a ContainerStart failure whose message contains "address already in
\* use" and not "bind host port" is answered as a port conflict, and when
\* the message contains "0.0.0.0:p:" the port reported is p, in POST
\* /create and in GET /start/:id.
C24_AddressInUseReported ==
    C24_AtCreateStart /\ C24_AtStartById

\* POST /create of request r was answered 200
Succeeded(r) == IsCreate(r) /\ Done(r) /\ response[r].status = 200

\* the mapping request r settled: the host port its search settled and the
\* container port it asked for, none when it searched no port
EffectiveMapping(r) ==
    IF portSeen[r].read
    THEN Itoa(portSeen[r].settled) \o <<":">> \o SplitColon(req[r].port)[2]
    ELSE None

\* the host port request r settled is not the one it asked for
Reallocated(r) == ~portSeen[r].read \/ portSeen[r].settled # portSeen[r].h

\* C25: a 200 response of POST /create reports the mapping the request
\* settled; when the request named a port, note and original_port are
\* present exactly when that mapping differs from the requested one; a
\* request for host port 8080 gets a host port >= 8081 and a note; a
\* request without a port gets no note.
C25_MappingReported ==
    \A r \in Slots :
        Succeeded(r) =>
            /\ response[r].port = EffectiveMapping(r)
            /\ portSeen[r].read /\ portSeen[r].settled # 0 =>
                   RunsWith(r, portSeen[r].settled)
            /\ req[r].port # <<>> =>
                   /\ response[r].note <=> Reallocated(r)
                   /\ response[r].original_port # <<>> <=> Reallocated(r)
                   /\ Reallocated(r) => response[r].original_port = req[r].port
            /\ req[r].port = PortSpec(ReservedPort, 80) =>
                   /\ portSeen[r].settled >= 8081
                   /\ response[r].note
            /\ req[r].port = <<>> =>
                   ~response[r].note /\ response[r].original_port = <<>>

C25_Witness ==
    /\ Succeeded(1) /\ req[1].port = PortSpec(ReservedPort, 80)
    /\ response[1].note /\ portSeen[1].settled >= 8081

\* a ContainerList of request r failed: the listing of the name
\* resolution or one of the port search
ListingFailed(r) ==
    \E i \in 1..Len(calls[r]) :
        calls[r][i].op = "containerList" /\ ~calls[r][i].ok

\* C26: no failure of a step is swallowed: a POST /create one of whose
\* ContainerList calls failed, in the name resolution or in a port probe,
\* issues no ContainerCreate and ends with a failure response.
C26_ListingFailureSurfaced ==
    \A r \in Slots :
        IsCreate(r) /\ ListingFailed(r) =>
            /\ CreateCalls(r) = <<>>
            /\ Done(r) => response[r].status >= 400

PullCalls(r) == SelectSeq(calls[r], LAMBDA c : c.op = "imagePull")

\* the ping of request r succeeded
Pinged(r) ==
    \E i \in 1..Len(calls[r]) : calls[r][i].op = "ping" /\ calls[r][i].ok

\* C27: POST /images/pull with an empty name issues no ImagePull, with or
\* without a tag, and once the daemon answered its ping it is answered 400.
C27_EmptyNameRefused ==
    \A r \in Slots :
        req[r].kind = "pull" /\ req[r].name = <<>> =>
            /\ PullCalls(r) = <<>>
            /\ Done(r) /\ Pinged(r) => response[r].status = 400

IsImageRemove(r) == req[r].kind = "imageRemove"

\* text p is the id of image x, whole or cut short, with or without
\* "sha256:", or the name of x: its repo tag, or its repository when the
\* tag is "latest"
NamesImage(p, x) ==
    \/ p = x
    \/ p \o <<":", "latest">> = x
    \/ Len(p) > Len(Sha) /\ HasPrefix(ImageId(x), p)
    \/ p # <<>> /\ HasPrefix(Tail(ImageId(x)), p)

\* the ImageList of request r succeeded
ImagesListed(r) ==
    \E i \in 1..Len(calls[r]) :
        calls[r][i].op = "imageList" /\ calls[r][i].ok

\* C28: DELETE /images/:id removes an image only when the parameter is its
\* id, whole or cut short, or its name; a request removes at most one
\* image; when the request listed the images and none has the parameter
\* for id or name, it is answered 404 with the available images and has
\* removed nothing.
C28_RemoveByIdOrName ==
    \A r \in Slots :
        IsImageRemove(r) =>
            /\ \A x \in removedSeen[r] : NamesImage(req[r].id, x)
            /\ Cardinality(removedSeen[r]) <= 1
            /\ (/\ Done(r) /\ ImagesListed(r)
                /\ \A x \in images \cup removedSeen[r] :
                       ~NamesImage(req[r].id, x))
                   => /\ response[r].status = 404
                      /\ response[r].available_images # <<>>
                      /\ removedSeen[r] = {}

\* the i-th call of request r is a ContainerInspect that answered, with
\* State.Running as told
InspectAt(r, i, state) ==
    /\ calls[r][i].op = "inspect" /\ calls[r][i].ok
    /\ calls[r][i].msg = <<state>>

\* C29: GET /start/:id whose ContainerInspect reports the container running
\* is answered 409 and issues no ContainerStart; a request issues at most
\* one ContainerStart, and only after a ContainerInspect that reported the
\* container not running.
C29_StartOnlyWhenStopped ==
    \A r \in Slots :
        req[r].kind = "start" =>
            /\ Len(StartCalls(r)) <= 1
            /\ \A i \in 1..Len(calls[r]) :
                   calls[r][i].op = "start" =>
                       \E j \in 1..(i - 1) : InspectAt(r, j, "exited")
            /\ (\E j \in 1..Len(calls[r]) : InspectAt(r, j, "running")) =>
                   /\ StartCalls(r) = <<>>
                   /\ Done(r)
                   /\ response[r].status = 409
                   /\ response[r].error = "already_running"

C29_Witness ==
    /\ req[1].kind = "start" /\ Done(1)
    /\ \E j \in 1..Len(calls[1]) : InspectAt(1, j, "running")
    /\ response[1].status = 409 /\ StartCalls(1) = <<>>

\* the client of request r is open from its acquisition to the return of
\* the handler and closed once at the return; a request without a client
\* has issued no call
ClientScoped(r) ==
    /\ cli[r].acquired /\ Done(r) => ~cli[r].open /\ cli[r].closes = 1
    /\ cli[r].acquired /\ ~Done(r) => cli[r].open /\ cli[r].closes = 0
    /\ ~cli[r].acquired =>
           ~cli[r].open /\ cli[r].closes = 0 /\ calls[r] = <<>>

\* a step in which request r issues a daemon call finds its own client open
CallsOnOpenClient(r) ==
    calls'[r] # calls[r] => cli[r].acquired /\ cli[r].open

CreateStep(r) ==
    \/ CreateConnect(r)
    \/ CreatePing(r)
    \/ CreateImageList(r)
    \/ CreateImagePull(r)
    \/ CreatePullRead(r)
    \/ CreateResolveName(r)
    \/ CreateConfigurePort(r)
    \/ CreateContainer(r)
    \/ CreateRetry(r)
    \/ CreateStart(r)

NextCreate ==
    \/ ArriveCreate(1)
    \/ CreateStep(1)

SpecCreateLive == Init /\ [][NextCreate]_vars /\ WF_vars(CreateStep(1))

\* the stage of the request's state machine a position of the handler is in:
\* 0 Idle, 1 ImageResolving, 2 NameResolving, 3 PortResolving, 4 Creating,
\* 5 Starting, 6 Done or Failed
Stage(p) ==
    CASE p \in {"idle", "connect", "ping"} -> 0
      [] p \in {"imageList", "imagePull", "pullRead"} -> 1
      [] p = "name" -> 2
      [] p = "port" -> 3
      [] p \in {"create", "retry"} -> 4
      [] p = "start" -> 5
      [] p = "done" -> 6

\* a step of the handler stays in its stage, enters the next one, or ends
StageOrder(r) ==
    pc'[r] # pc[r] =>
        /\ Stage(pc'[r]) \in {Stage(pc[r]), Stage(pc[r]) + 1, Stage("done")}
        /\ Stage(pc'[r]) >= Stage(pc[r])

\* one response, sent exactly when the handler has ended: 200 or a failure
OneResponse(r) ==
    /\ response[r].sent <= 1
    /\ Done(r) <=> response[r].sent = 1
    /\ Done(r) => response[r].status = 200 \/ response[r].status >= 400
    /\ response[r].status = 200 => Stage(pc[r]) = Stage("done")

\* C31: every POST /create whose daemon calls return terminates with exactly
\* one response: it moves through Idle, ImageResolving, NameResolving,
\* PortResolving, Creating and Starting in this order, never back, and ends in
\* Done with HTTP 200 or in one failure response, on every path
C31_CreateTerminates ==
    /\ [](\A r \in Slots : IsCreate(r) \/ pc[r] = "idle" => OneResponse(r))
    /\ [][\A r \in Slots : StageOrder(r)]_vars
    /\ (IsCreate(1) ~> Done(1))

\* a create that ended in one failure response after its name-conflict retry
\* failed too
C31_Witness ==
    /\ IsCreate(1) /\ Done(1)
    /\ response[1].sent = 1 /\ response[1].status >= 400
    /\ Len(CreateCalls(1)) = 2
    /\ ~CreateCalls(1)[1].ok /\ ~CreateCalls(1)[2].ok

====
